---------------------------- MODULE Spec2Model ----------------------------
(***************************************************************************)
(* A model of mkrepo's metadata reconciliation: rpmrepo.update_repo (YUM   *)
(* repositories), debrepo.update_repo (APT repositories) and the pure      *)
(* emitters they call.                                                     *)
(*                                                                         *)
(* Six specifications share the module:                                    *)
(*   SpecRpm    rpmrepo.update_repo over a storage whose .rpm artifacts an *)
(*              environment adds, rewrites and removes between runs;       *)
(*   SpecDeb    debrepo.update_repo over a pool of .deb / .dsc artifacts;  *)
(*   SpecMkrepo mkrepo.update_repo without --force: one of the two above;  *)
(*   SpecDump   rpmrepo.dump_primary's <rpm:requires> block applied to     *)
(*              requires maps drawn from a bounded set;                    *)
(*   SpecRpmFn  the pure functions of rpmrepo and rpmfile, each applied    *)
(*              once to an input drawn from a bounded set;                 *)
(*   SpecDebFn  the pure functions of debrepo, likewise.                   *)
(* Each specification leaves the variables of the others at their initial  *)
(* values.                                                                 *)
(*                                                                         *)
(* Abstractions.  A digest is the tagged value it was computed from (no    *)
(* collisions).  A byte length counts the elements of the document.  A     *)
(* float of seconds is an integer number of tenths of a second.  A Python  *)
(* dict is the sequence of its (key, value) items in insertion order.      *)
(***************************************************************************)
EXTENDS Integers, Sequences, FiniteSets, TLC

\* The clock stops at MaxTime; every change of an artifact and every tick
\* of the wall clock advances it, so MaxTime also bounds the environment.
MaxTime == 2

VARIABLES
    args,           \* mkrepo.py command line: [force, sign], the same for every run
    now,            \* wall clock, whole seconds
    rpmFiles,       \* storage: the *.rpm artifacts, path -> file
    metaFiles,      \* storage: repodata/<sha256>-<kind>.xml.gz, name -> bytes
    repomd,         \* storage: repodata/repomd.xml
    malformedFile,  \* storage: repodata/malformed_list.txt
    ascFile,        \* storage: repodata/repomd.xml.asc
    pc,             \* position of update_repo ("idle" between runs)
    run,            \* locals of the run of update_repo in progress
    hist,           \* history of the runs (observes, never read by the code)
    pool,           \* storage: the artifacts under pool/, path -> file
    releases,       \* storage: dists/<dist>/Release
    indexFiles,     \* storage: dists/<dist>/<component>/<subdir>/<file>, key -> bytes
    debMalformed,   \* storage: dists/<dist>/malformed_list.txt
    debSigned,      \* storage: dists/<dist>/Release.gpg and InRelease
    package,        \* dump_primary: the requires of the package to dump
    entries         \* dump_primary: the <rpm:entry> names under <rpm:requires>

rpmStore == <<rpmFiles, metaFiles, repomd, malformedFile, ascFile>>

debStore == <<pool, releases, indexFiles, debMalformed, debSigned>>

dumpVars == <<package, entries>>

vars == <<args, now, pc, run, hist, rpmStore, debStore, dumpVars>>

----------------------------------------------------------------------------
(* Generic helpers: Python dict and set iteration.                          *)

\* All orders in which a Python set can be iterated.
Orders(S) == {o \in [1..Cardinality(S) -> S] : \A i, j \in 1..Cardinality(S) : o[i] = o[j] => i = j}

SeqToSet(s) == {s[i] : i \in 1..Len(s)}

DictKeys(d) == {d[i].k : i \in 1..Len(d)}

DictHas(d, key) == \E i \in 1..Len(d) : d[i].k = key

DictGet(d, key) == d[CHOOSE i \in 1..Len(d) : d[i].k = key].v

\* d[key] = value: an existing key keeps its position, a new key goes last.
DictSet(d, key, value) ==
    IF DictHas(d, key)
    THEN [i \in 1..Len(d) |-> IF d[i].k = key THEN [k |-> key, v |-> value] ELSE d[i]]
    ELSE Append(d, [k |-> key, v |-> value])

\* del d[key] (the caller checks DictHas: a missing key is a KeyError).
DictDel(d, key) == SelectSeq(d, LAMBDA item : item.k # key)

----------------------------------------------------------------------------
(* RPM artifacts.                                                           *)

RpmPaths == {"Packages/a.rpm", "Packages/b.rpm"}

\* What rpmfile.RpmInfo.parse_file finds in a file: a file that does not
\* parse, or a header.  EPOCH is an optional int32 tag.
Malformed == [ok |-> FALSE, name |-> "", hasEpoch |-> FALSE, epoch |-> 0]

Header(n, he, e) == [ok |-> TRUE, name |-> n, hasEpoch |-> he, epoch |-> e]

RpmContents == {Malformed, Header("foo", FALSE, 0), Header("foo", TRUE, 1)}

HeaderRelease == "1.el7"
HeaderVersion == "2.9"

NoFile == [exists |-> FALSE, content |-> Malformed, mtime |-> 0]

\* Storage.mtime is a float of seconds: tenths of a second here.
Mtimes(t) == {10 * t, 10 * t + 5}

\* int(mtime) and float(text) of the text of an int.
IntOfFloat(m) == m \div 10
FloatOfInt(s) == 10 * s

\* An epoch is the str '0' (the default, or any XML attribute) or the int
\* of the EPOCH tag: Python never finds an int equal to a str.
EpochStr(n) == [ty |-> "str", v |-> n]
EpochInt(n) == [ty |-> "int", v |-> n]

\* Truth value of an epoch in "if ver[c]": a str is true unless empty, an
\* int unless zero.
Truthy(e) == e.ty = "str" \/ e.v # 0

\* hashlib sha256 of bytes.
bytes_checksum(data) == [sha256 |-> data]

----------------------------------------------------------------------------
(* header_to_primary / header_to_filelists / header_to_other: the identity *)
(* tuple and the fields the reconciliation reads back.                      *)

HeaderEpoch(header) == IF header.hasEpoch THEN EpochInt(header.epoch) ELSE EpochStr(0)

Nerv(name, epoch, rel, ver) == [name |-> name, epoch |-> epoch, rel |-> rel, ver |-> ver]

HeaderNerv(header) == Nerv(header.name, HeaderEpoch(header), HeaderRelease, HeaderVersion)

header_to_primary(header, sha256, mtime, location) ==
    [k |-> HeaderNerv(header),
     v |-> [checksum |-> sha256, name |-> header.name, epoch |-> HeaderEpoch(header),
            rel |-> HeaderRelease, ver |-> HeaderVersion,
            file_time |-> IntOfFloat(mtime), location |-> location]]

header_to_filelists(header, sha256) ==
    [k |-> HeaderNerv(header),
     v |-> [pkgid |-> sha256, name |-> header.name, epoch |-> HeaderEpoch(header),
            rel |-> HeaderRelease, ver |-> HeaderVersion]]

header_to_other(header, sha256) ==
    [k |-> HeaderNerv(header),
     v |-> [pkgid |-> sha256, name |-> header.name, epoch |-> HeaderEpoch(header),
            rel |-> HeaderRelease, ver |-> HeaderVersion]]

----------------------------------------------------------------------------
(* The XML documents.  A document is the sequence of its <package>          *)
(* elements; <version> carries an epoch attribute only when the epoch is    *)
(* true.                                                                    *)

VersionAttrs(v) ==
    [hasEpoch |-> Truthy(v.epoch), epoch |-> IF Truthy(v.epoch) THEN v.epoch.v ELSE 0,
     ver |-> v.ver, rel |-> v.rel]

dump_primary(primary) ==
    [i \in 1..Len(primary) |->
        [name |-> primary[i].v.name, version |-> VersionAttrs(primary[i].v),
         checksum |-> primary[i].v.checksum, file_time |-> primary[i].v.file_time,
         location |-> primary[i].v.location]]

dump_filelists(filelists) ==
    [i \in 1..Len(filelists) |->
        [pkgid |-> filelists[i].v.pkgid, name |-> filelists[i].v.name,
         version |-> VersionAttrs(filelists[i].v)]]

dump_other(others) ==
    [i \in 1..Len(others) |->
        [pkgid |-> others[i].v.pkgid, name |-> others[i].v.name,
         version |-> VersionAttrs(others[i].v)]]

\* version.attrib.get('epoch', '0'): always a str.
ParsedEpoch(attrs) == EpochStr(IF attrs.hasEpoch THEN attrs.epoch ELSE 0)

ElementNerv(el) == Nerv(el.name, ParsedEpoch(el.version), el.version.rel, el.version.ver)

RECURSIVE parse_primary_from(_, _, _)
parse_primary_from(doc, i, packages) ==
    IF i > Len(doc) THEN packages
    ELSE parse_primary_from(doc, i + 1,
            DictSet(packages, ElementNerv(doc[i]),
                    [checksum |-> doc[i].checksum, name |-> doc[i].name,
                     epoch |-> ParsedEpoch(doc[i].version),
                     rel |-> doc[i].version.rel, ver |-> doc[i].version.ver,
                     file_time |-> doc[i].file_time, location |-> doc[i].location]))

parse_primary(doc) == parse_primary_from(doc, 1, <<>>)

RECURSIVE parse_pkgid_from(_, _, _)
parse_pkgid_from(doc, i, packages) ==
    IF i > Len(doc) THEN packages
    ELSE parse_pkgid_from(doc, i + 1,
            DictSet(packages, ElementNerv(doc[i]),
                    [pkgid |-> doc[i].pkgid, name |-> doc[i].name,
                     epoch |-> ParsedEpoch(doc[i].version),
                     rel |-> doc[i].version.rel, ver |-> doc[i].version.ver]))

parse_filelists(doc) == parse_pkgid_from(doc, 1, <<>>)

parse_other(doc) == parse_pkgid_from(doc, 1, <<>>)

\* gzip.GzipFile writes the time of compression into the header.
gzip_bytes(data, t) == [gzip_mtime |-> t, data |-> data]

gunzip_bytes(bytes) == bytes.data

\* len() of a document's utf-8 bytes and of its gzip container.
OpenLen(doc) == Len(doc) + 1
GzLen(bytes) == OpenLen(bytes.data) + 18


----------------------------------------------------------------------------
(* repodata/repomd.xml.                                                     *)

Kinds == {"filelists", "primary", "other"}

\* 'repodata/%s-<kind>.xml.gz' % sha256 of the gzipped bytes.
ChildName(kind, sha256) == [dir |-> "repodata", sha256 |-> sha256, kind |-> kind]

NoBytes == gzip_bytes(<<>>, 0)

NoData ==
    [present |-> FALSE, checksum |-> bytes_checksum(NoBytes), open_checksum |-> bytes_checksum(<<>>),
     location |-> ChildName("", bytes_checksum(NoBytes)), timestamp |-> 0, size |-> 0, open_size |-> 0]

\* <revision> is an element with a text and, as written by generate_repomd,
\* without child elements.
NoRepomd ==
    [exists |-> FALSE, revision |-> [present |-> FALSE, text |-> 0, children |-> 0],
     data |-> [kind \in Kinds |-> NoData]]

DataEntry(str, gz, kind, t) ==
    [present |-> TRUE, checksum |-> bytes_checksum(gz), open_checksum |-> bytes_checksum(str),
     location |-> ChildName(kind, bytes_checksum(gz)), timestamp |-> t,
     size |-> GzLen(gz), open_size |-> OpenLen(str)]

generate_repomd(strs, gzs, revision, t) ==
    [exists |-> TRUE, revision |-> [present |-> TRUE, text |-> revision, children |-> 0],
     data |-> [kind \in Kinds |-> DataEntry(strs[kind], gzs[kind], kind, t)]]

\* "if revision_element:" is the truth value of an xml.etree Element, which
\* is its number of child elements.
ElementTruth(element) == element.present /\ element.children > 0

parse_repomd_revision(doc) == IF ElementTruth(doc.revision) THEN doc.revision.text ELSE 0

\* storage.exists / storage.read_file on a child of repodata/.
MetaExists(files, name) == name \in DOMAIN files

ParseChild(kind, bytes) ==
    CASE kind = "primary" -> parse_primary(gunzip_bytes(bytes))
      [] kind = "filelists" -> parse_filelists(gunzip_bytes(bytes))
      [] OTHER -> parse_other(gunzip_bytes(bytes))

\* initial_<kind>: the listed location when it is listed and exists.
InitialChild(doc, files, kind) ==
    IF doc.exists /\ doc.data[kind].present /\ MetaExists(files, doc.data[kind].location)
    THEN [has |-> TRUE, name |-> doc.data[kind].location]
    ELSE [has |-> FALSE, name |-> NoData.location]

\* parse_metafiles without "initial_<kind> = None" in the else branches.
parse_metafiles_keeping_initial(doc, files) ==
    [maps |-> [kind \in Kinds |->
                 IF InitialChild(doc, files, kind).has
                 THEN ParseChild(kind, files[InitialChild(doc, files, kind).name])
                 ELSE <<>>],
     revision |-> IF doc.exists THEN parse_repomd_revision(doc) ELSE 0,
     initial |-> [kind \in Kinds |->
                    [has |-> doc.exists /\ doc.data[kind].present, name |-> doc.data[kind].location]]]

parse_metafiles(doc, files) ==
    [maps |-> [kind \in Kinds |->
                 IF InitialChild(doc, files, kind).has
                 THEN ParseChild(kind, files[InitialChild(doc, files, kind).name])
                 ELSE <<>>],
     revision |-> IF doc.exists THEN parse_repomd_revision(doc) ELSE 0,
     initial |-> [kind \in Kinds |-> InitialChild(doc, files, kind)]]

----------------------------------------------------------------------------
(* rpmrepo.update_repo: the difference between index and storage.           *)

recorded_files(primary) ==
    {<<primary[i].v.location, FloatOfInt(primary[i].v.file_time)>> : i \in 1..Len(primary)}

existing_files(files) == {<<p, files[p].mtime>> : p \in {q \in RpmPaths : files[q].exists}}

\* The loop over files_to_delete: each takes the first item of the copy of
\* primary with its location out of the copy.
RECURSIVE stale_primary(_, _, _)
stale_primary(copied_primary, todo, stale) ==
    IF todo = {} THEN stale
    ELSE LET file_to_delete == CHOOSE f \in todo : TRUE
             hits == {i \in 1..Len(copied_primary) : copied_primary[i].v.location = file_to_delete[1]}
         IN IF hits = {} THEN stale_primary(copied_primary, todo \ {file_to_delete}, stale)
            ELSE LET first == CHOOSE i \in hits : \A j \in hits : i <= j
                 IN stale_primary(DictDel(copied_primary, copied_primary[first].k),
                                  todo \ {file_to_delete},
                                  stale \cup {copied_primary[first].k})

RECURSIVE DictDelAll(_, _)
DictDelAll(d, keys) ==
    IF keys = {} THEN d
    ELSE LET key == CHOOSE x \in keys : TRUE IN DictDelAll(DictDel(d, key), keys \ {key})

\* "del primary[k]; del filelists[k]; del others[k]" for every stale key: a
\* key missing from a map is a KeyError, which nothing catches.
DeleteStale(maps, stale) ==
    IF \A key \in stale : \A kind \in Kinds : DictHas(maps[kind], key)
    THEN [raised |-> FALSE, maps |-> [kind \in Kinds |-> DictDelAll(maps[kind], stale)]]
    ELSE [raised |-> TRUE, maps |-> maps]

\* The loop over files_to_add, taken in the order `order`.
RECURSIVE AddFiles(_, _, _, _, _)
AddFiles(files, order, i, force, acc) ==
    IF i > Len(order) \/ acc.raised THEN acc
    ELSE LET file_path == order[i][1]
             mtime == order[i][2]
             header == files[file_path].content
             sha256 == bytes_checksum(header)
             prim == header_to_primary(header, sha256, mtime, file_path)
             flist == header_to_filelists(header, sha256)
             other == header_to_other(header, sha256)
         IN IF ~header.ok
            THEN AddFiles(files, order, i + 1, force,
                    IF force
                    THEN [acc EXCEPT !.malformed_list = Append(@, file_path)]
                    ELSE [acc EXCEPT !.raised = TRUE])
            ELSE AddFiles(files, order, i + 1, force,
                    [acc EXCEPT !.maps = [kind \in Kinds |->
                        CASE kind = "primary" -> DictSet(@[kind], prim.k, prim.v)
                          [] kind = "filelists" -> DictSet(@[kind], flist.k, flist.v)
                          [] OTHER -> DictSet(@[kind], other.k, other.v)]])

\* Lines 1252-1329: parse the metafiles, drop the stale units, add the files.
Reconcile(doc, metas, files, order, force) ==
    LET parsed == parse_metafiles(doc, metas)
        files_to_delete == recorded_files(parsed.maps["primary"]) \ existing_files(files)
        stale == stale_primary(parsed.maps["primary"], files_to_delete, {})
        deleted == DeleteStale(parsed.maps, stale)
        added == AddFiles(files, order, 1, force,
                          [raised |-> deleted.raised, maps |-> deleted.maps, malformed_list |-> <<>>])
    IN [raised |-> added.raised, maps |-> added.maps, malformed_list |-> added.malformed_list,
        revision |-> parsed.revision, initial |-> parsed.initial]

files_to_add(doc, metas, files) ==
    existing_files(files) \ recorded_files(parse_metafiles(doc, metas).maps["primary"])


----------------------------------------------------------------------------
(* rpmrepo.update_repo: the run.                                            *)

NoInitial == [kind \in Kinds |-> [has |-> FALSE, name |-> NoData.location]]

NoMaps == [kind \in Kinds |-> <<>>]

EmptyRun ==
    [maps |-> NoMaps, malformed_list |-> <<>>,
     revision |-> 0, initial |-> NoInitial, stamp |-> 0]

EmptyHist ==
    [outcome |-> "none", fresh |-> FALSE, repeat |-> FALSE, same |-> FALSE,
     startRevision |-> NoRepomd.revision, rejected |-> {}]

\* Lines 1335-1353: the three documents, their gzipped bytes, their names.
RunStrs(r) ==
    [kind \in Kinds |->
        CASE kind = "primary" -> dump_primary(r.maps[kind])
          [] kind = "filelists" -> dump_filelists(r.maps[kind])
          [] OTHER -> dump_other(r.maps[kind])]

RunGzs(r) == [kind \in Kinds |-> gzip_bytes(RunStrs(r)[kind], r.stamp)]

RunName(r, kind) == ChildName(kind, bytes_checksum(RunGzs(r)[kind]))

RunRepomd(r) == generate_repomd(RunStrs(r), RunGzs(r), r.revision, r.stamp)

\* storage.write_file / storage.delete_file on a child of repodata/.
WriteMeta(files, name, bytes) == [n \in DOMAIN files \cup {name} |-> IF n = name THEN bytes ELSE files[n]]

\* The deletion of the old children without the comparison of the names.
ShouldDeleteOldUnguarded(r, kind) == r.initial[kind].has

\* "if initial_<kind> and initial_<kind> != <kind>_name".
ShouldDeleteOld(r, kind) == r.initial[kind].has /\ r.initial[kind].name # RunName(r, kind)

Abort == pc' = "idle" /\ run' = EmptyRun

\* The documents the manifest in storage points at, kind by kind.
StoredDocs(doc, files) ==
    [kind \in Kinds |->
        IF InitialChild(doc, files, kind).has
        THEN <<gunzip_bytes(files[InitialChild(doc, files, kind).name])>>
        ELSE <<>>]

\* update_repo up to the end of the loop over files_to_add.  Nothing is
\* written yet; an exception ends the run.
RpmBegin(order) ==
    /\ pc = "idle"
    /\ LET rec == Reconcile(repomd, metaFiles, rpmFiles, order, args.force)
           h == [hist EXCEPT !.repeat = hist.outcome = "ok" /\ hist.fresh,
                             !.fresh = TRUE,
                             !.startRevision = repomd.revision,
                             !.same = ~rec.raised /\
                                [kind \in Kinds |-> <<RunStrs(rec)[kind]>>] = StoredDocs(repomd, metaFiles),
                             !.rejected = SeqToSet(rec.malformed_list)]
       IN IF rec.raised
          THEN /\ Abort
               /\ hist' = [h EXCEPT !.outcome = "raised"]
          ELSE /\ pc' = "save_malformed_list"
               /\ run' = [maps |-> rec.maps,
                          malformed_list |-> rec.malformed_list, revision |-> rec.revision,
                          initial |-> rec.initial, stamp |-> 0]
               /\ hist' = [h EXCEPT !.outcome = "running"]
    /\ UNCHANGED <<args, now, rpmFiles, metaFiles, repomd, malformedFile, ascFile, debStore, dumpVars>>

\* save_malformed_list, then "revision = str(int(revision) + 1)" and the
\* compression of the documents at the current time.
RpmSaveMalformedList ==
    /\ pc = "save_malformed_list"
    /\ malformedFile' = IF run.malformed_list # <<>>
                        THEN [exists |-> TRUE, lines |-> run.malformed_list]
                        ELSE [exists |-> FALSE, lines |-> <<>>]
    /\ run' = [run EXCEPT !.revision = @ + 1, !.stamp = now]
    /\ pc' = "write_children"
    /\ UNCHANGED <<args, now, rpmFiles, metaFiles, repomd, ascFile, hist, debStore, dumpVars>>

\* Lines 1355-1357: the three children, written one after the other.
WriteChildren(files, r) ==
    WriteMeta(WriteMeta(WriteMeta(files,
        RunName(r, "filelists"), RunGzs(r)["filelists"]),
        RunName(r, "primary"), RunGzs(r)["primary"]),
        RunName(r, "other"), RunGzs(r)["other"])

\* The children written and the old ones deleted before repomd.xml is
\* rewritten.
RpmWriteChildrenDeletingOld ==
    /\ pc = "write_children"
    /\ metaFiles' =
          [n \in DOMAIN WriteChildren(metaFiles, run)
                    \ {run.initial[kind].name : kind \in {k \in Kinds : ShouldDeleteOld(run, k)}} |->
              WriteChildren(metaFiles, run)[n]]
    /\ pc' = "write_repomd"
    /\ UNCHANGED <<args, now, rpmFiles, repomd, malformedFile, ascFile, run, hist, debStore, dumpVars>>

RpmWriteChildren ==
    /\ pc = "write_children"
    /\ metaFiles' = WriteChildren(metaFiles, run)
    /\ pc' = "write_repomd"
    /\ UNCHANGED <<args, now, rpmFiles, repomd, malformedFile, ascFile, run, hist, debStore, dumpVars>>

RpmWriteRepomd ==
    /\ pc = "write_repomd"
    /\ repomd' = RunRepomd(run)
    /\ pc' = "delete_old"
    /\ UNCHANGED <<args, now, rpmFiles, metaFiles, malformedFile, ascFile, run, hist, debStore, dumpVars>>

\* Lines 1369-1374: each previously referenced child, unless it was just rewritten.
OldChildren(r) == {r.initial[kind].name : kind \in {k \in Kinds : ShouldDeleteOld(r, k)}}

RpmDeleteOldChildren ==
    /\ pc = "delete_old"
    /\ metaFiles' = [n \in DOMAIN metaFiles \ OldChildren(run) |-> metaFiles[n]]
    /\ pc' = "sign"
    /\ UNCHANGED <<args, now, rpmFiles, repomd, malformedFile, ascFile, run, hist, debStore, dumpVars>>

Finish ==
    /\ pc' = "idle"
    /\ run' = EmptyRun
    /\ hist' = [hist EXCEPT !.outcome = "ok"]

\* "if sign:" gpg_sign_string raises when gpg fails.
RpmSign ==
    /\ pc = "sign"
    /\ \/ /\ ~args.sign
          /\ Finish
          /\ UNCHANGED ascFile
       \/ /\ args.sign
          /\ ascFile' = [exists |-> TRUE, signed |-> repomd]
          /\ Finish
       \/ /\ args.sign
          /\ Abort
          /\ hist' = [hist EXCEPT !.outcome = "sign_failed"]
          /\ UNCHANGED ascFile
    /\ UNCHANGED <<args, now, rpmFiles, metaFiles, repomd, malformedFile, debStore, dumpVars>>

----------------------------------------------------------------------------
(* The environment of an RPM repository, between two runs.                  *)

PutRpm(path, content, mtime) ==
    /\ pc = "idle"
    /\ now < MaxTime
    /\ now' = now + 1
    /\ mtime \in Mtimes(now')
    /\ rpmFiles' = [rpmFiles EXCEPT ![path] = [exists |-> TRUE, content |-> content, mtime |-> mtime]]
    /\ hist' = [hist EXCEPT !.fresh = FALSE]
    /\ UNCHANGED <<args, metaFiles, repomd, malformedFile, ascFile, pc, run, debStore, dumpVars>>

RemoveRpm(path) ==
    /\ pc = "idle"
    /\ now < MaxTime
    /\ rpmFiles[path].exists
    /\ now' = now + 1
    /\ rpmFiles' = [rpmFiles EXCEPT ![path] = NoFile]
    /\ hist' = [hist EXCEPT !.fresh = FALSE]
    /\ UNCHANGED <<args, metaFiles, repomd, malformedFile, ascFile, pc, run, debStore, dumpVars>>

----------------------------------------------------------------------------
(* DEB artifacts: the keys under pool/ and what the files hold.             *)

\* A key under pool/: 'pool/<pathDist>/main/.../<file>'.  For a .deb,
\* `grammar` tells whether the key matches the file-name expression of
\* split_pkg_path, nameDist is its <dist> group ("" when absent) and arch
\* its <arch> group.
PoolPath(pathDist, file, ext, grammar, nameDist, arch) ==
    [pathDist |-> pathDist, file |-> file, ext |-> ext, grammar |-> grammar,
     nameDist |-> nameDist, arch |-> arch]

DebPaths ==
    {PoolPath("d1", "foo_1.0.0-1_amd64.deb", "deb", TRUE, "", "amd64"),
     PoolPath("d1", "foo_1.0.0-2_amd64.deb", "deb", TRUE, "", "amd64"),
     PoolPath("d1", "foo.deb", "deb", FALSE, "", "")}

DscPaths == {PoolPath("d2", "bar_1.0.0-1.dsc", "dsc", TRUE, "", "")}

PoolPaths == DebPaths \cup DscPaths

DistNames == {"d1", "d2"}

\* What Package.parse_deb / Source.parse_dsc finds in a file: a control
\* record, or nothing it can parse.
Control(name, version, arch) == [ok |-> TRUE, Package |-> name, Version |-> version, Architecture |-> arch]

BadControl == [ok |-> FALSE, Package |-> "", Version |-> "", Architecture |-> ""]

PoolContents(path) ==
    IF path.ext = "dsc" THEN {BadControl, Control("bar", "1.0.0-1", "any")}
    ELSE IF path.grammar THEN {BadControl, Control("foo", "1.0.0-1", "amd64")}
    ELSE {BadControl}

NoPoolFile == [exists |-> FALSE, content |-> BadControl, mtime |-> 0]

\* A field value is the float or the str of it.
FloatValue(v) == [ty |-> "float", v |-> v]

StrValue(v) == [ty |-> "str", v |-> v]

\* '%s' % value, and float(text).
StrOf(value) == StrValue(value.v)

FloatOf(value) == value.v

\* None, or the (dist, component, arch) of a .deb key.  The <dist> of the
\* path is read from a match object that is None when the key does not
\* start with pool/<dist>/main: AttributeError.
split_pkg_path(path) ==
    IF ~path.grammar THEN [none |-> TRUE, raised |-> FALSE, slot |-> <<"", "", "">>]
    ELSE IF path.nameDist = "" /\ path.pathDist = ""
    THEN [none |-> FALSE, raised |-> TRUE, slot |-> <<"", "", "">>]
    ELSE [none |-> FALSE, raised |-> FALSE,
          slot |-> <<IF path.nameDist # "" THEN path.nameDist ELSE path.pathDist, "main", path.arch>>]

split_src_path(path) ==
    IF path.pathDist = "" THEN [none |-> TRUE, slot |-> <<"", "">>]
    ELSE [none |-> FALSE, slot |-> <<path.pathDist, "main">>]

\* Package / Source: the fields of a unit, and the key of __eq__ and __hash__.
Unit(control, path, mtime) ==
    [Package |-> control.Package, Version |-> control.Version, Architecture |-> control.Architecture,
     Filename |-> path, FileTime |-> FloatValue(mtime)]

PackageKey(unit) == <<unit.Package, unit.Version, unit.Architecture>>

SourceKey(unit) == <<unit.Package, unit.Version>>

\* "if unit in units: units.remove(unit)" then "units.add(unit)".
PackagesPut(packages, unit) == {u \in packages : PackageKey(u) # PackageKey(unit)} \cup {unit}

SourcesPut(sources, unit) == {u \in sources : SourceKey(u) # SourceKey(unit)} \cup {unit}

\* dump_string of a list: the stanzas, every field as '%s: %s'.
dump_string(units) == {[u EXCEPT !.FileTime = StrOf(@)] : u \in units}

\* parse_string of a list: set.add keeps the unit already in the set.
RECURSIVE PackageList_parse_string(_, _)
PackageList_parse_string(data, packages) ==
    IF data = {} THEN packages
    ELSE LET entry == CHOOSE u \in data : TRUE
         IN PackageList_parse_string(data \ {entry},
                IF \E u \in packages : PackageKey(u) = PackageKey(entry)
                THEN packages ELSE packages \cup {entry})

RECURSIVE SourceList_parse_string(_, _)
SourceList_parse_string(data, sources) ==
    IF data = {} THEN sources
    ELSE LET entry == CHOOSE u \in data : TRUE
         IN SourceList_parse_string(data \ {entry},
                IF \E u \in sources : SourceKey(u) = SourceKey(entry)
                THEN sources ELSE sources \cup {entry})

\* The bytes of an index file: the text, gzip of it (with the time of
\* compression in the header) or bz2 of it.
PlainBytes(data) == [enc |-> "plain", stamp |-> 0, data |-> data]

GzipBytes(data, t) == [enc |-> "gz", stamp |-> t, data |-> data]

bz2_bytes(data) == [enc |-> "bz2", stamp |-> 0, data |-> data]

\* len(data) of the bytes of an index file.
BytesLen(bytes) ==
    Cardinality(bytes.data) + 1 + (CASE bytes.enc = "gz" -> 18 [] bytes.enc = "bz2" -> 14 [] OTHER -> 0)

\* hashlib.new(checksum_type) over the bytes.
Digest(checksum_type, bytes) == <<checksum_type, bytes>>

ChecksumTypes == {"md5", "sha1", "sha256"}

\* ' '.join(set) is kept as the set of its words; ''.split(' ') is [''].
SplitSpace(words) == IF words = {} THEN {""} ELSE words

Subdir(arch) == IF arch = "source" THEN <<"source">> ELSE <<"binary", arch>>

IndexKey(dist, component, subdir, file) == <<dist, component, subdir, file>>

NoRelease == [exists |-> FALSE, Date |-> 0, Architectures |-> {}, Components |-> {}, lines |-> {}]

NoDebStore ==
    /\ pool = [path \in PoolPaths |-> NoPoolFile]
    /\ releases = [dist \in DistNames |-> NoRelease]
    /\ indexFiles = << >>
    /\ debMalformed = [dist \in DistNames |-> [exists |-> FALSE, lines |-> <<>>]]
    /\ debSigned = [dist \in DistNames |-> [exists |-> FALSE, signed |-> NoRelease]]

NoDump == package = <<>> /\ entries = <<>>

----------------------------------------------------------------------------
(* debrepo: RepoInfo and the functions update_repo calls.                   *)

\* d[key] = value on a dict, and storage.write_file(key, value).
Put(f, key, value) == [x \in DOMAIN f \cup {key} |-> IF x = key THEN value ELSE f[x]]

\* defaultdict lookup.
Lookup(f, key, default) == IF key \in DOMAIN f THEN f[key] ELSE default

\* The (dist, component, arch) slots a Release names; "source" is skipped.
ReleaseSlots(rels) ==
    UNION {{<<d, c, a>> : c \in SplitSpace(rels[d].Components),
                          a \in SplitSpace(rels[d].Architectures) \ {"source"}} :
           d \in {x \in DistNames : rels[x].exists}}

ReleaseSources(rels, files) ==
    {key \in UNION {{<<d, c>> : c \in SplitSpace(rels[d].Components)} : d \in {x \in DistNames : rels[x].exists}} :
        IndexKey(key[1], key[2], Subdir("source"), "Sources") \in DOMAIN files}

PackagesKey(slot) == IndexKey(slot[1], slot[2], <<"binary", slot[3]>>, "Packages")

\* read_release_and_indices: storage.read_file of a Packages file that is
\* not there raises; a Sources file is read only if it exists.
read_release_and_indices(rels, files) ==
    IF \E slot \in ReleaseSlots(rels) : PackagesKey(slot) \notin DOMAIN files
    THEN [raised |-> TRUE, dists |-> {}, package_lists |-> << >>, source_lists |-> << >>]
    ELSE [raised |-> FALSE,
          dists |-> {d \in DistNames : rels[d].exists},
          package_lists |-> [slot \in ReleaseSlots(rels) |->
                                PackageList_parse_string(files[PackagesKey(slot)].data, {})],
          source_lists |-> [key \in ReleaseSources(rels, files) |->
                                SourceList_parse_string(
                                    files[IndexKey(key[1], key[2], Subdir("source"), "Sources")].data, {})]]

\* get_packages_mtimes / get_sources_mtimes: Filename -> float(FileTime).
get_mtimes(lists) == {<<u.Filename, FloatOf(u.FileTime)>> : u \in UNION {lists[key] : key \in DOMAIN lists}}

\* The loop of process_packages over the .deb keys, in the order `order`.
\* outcome: "go", "exit" (sys.exit(1)) or "deb_raised" (an exception).
RECURSIVE PackagesLoop(_, _, _, _, _, _)
PackagesLoop(files, mtimes, order, i, force, acc) ==
    IF i > Len(order) \/ acc.outcome # "go" THEN acc
    ELSE LET file_path == order[i]
             components == split_pkg_path(file_path)
             dist == components.slot[1]
             mtime == files[file_path].mtime
             control == files[file_path].content
             seen == [acc EXCEPT !.dists = @ \cup {dist}]
         IN IF components.none THEN [acc EXCEPT !.outcome = "exit"]
            ELSE IF components.raised THEN [acc EXCEPT !.outcome = "deb_raised"]
            ELSE IF <<file_path, mtime>> \in mtimes
            THEN PackagesLoop(files, mtimes, order, i + 1, force, seen)
            ELSE IF ~control.ok
            THEN IF force
                 THEN PackagesLoop(files, mtimes, order, i + 1, force,
                        [seen EXCEPT !.malformed_lists =
                            Put(@, dist, Append(Lookup(@, dist, <<>>), file_path))])
                 ELSE [seen EXCEPT !.outcome = "deb_raised"]
            ELSE PackagesLoop(files, mtimes, order, i + 1, force,
                    [seen EXCEPT !.package_lists =
                        Put(@, components.slot,
                            PackagesPut(Lookup(@, components.slot, {}), Unit(control, file_path, mtime)))])

\* The loop of process_sources over the .dsc keys: parse_dsc is not guarded.
RECURSIVE SourcesLoop(_, _, _, _, _)
SourcesLoop(files, mtimes, order, i, acc) ==
    IF i > Len(order) \/ acc.outcome # "go" THEN acc
    ELSE LET file_path == order[i]
             components == split_src_path(file_path)
             dist == components.slot[1]
             mtime == files[file_path].mtime
             control == files[file_path].content
             seen == [acc EXCEPT !.dists = @ \cup {dist}]
         IN IF components.none THEN [acc EXCEPT !.outcome = "exit"]
            ELSE IF <<file_path, mtime>> \in mtimes
            THEN SourcesLoop(files, mtimes, order, i + 1, seen)
            ELSE IF ~control.ok THEN [seen EXCEPT !.outcome = "dsc_raised"]
            ELSE SourcesLoop(files, mtimes, order, i + 1,
                    [seen EXCEPT !.source_lists =
                        Put(@, components.slot,
                            SourcesPut(Lookup(@, components.slot, {}), Unit(control, file_path, mtime)))])

\* The three files of an index and their lines in checksums[dist]: each
\* file is written, read back, measured and hashed.
IndexFilesOf(units, prefix, t) ==
    [file \in {prefix, prefix \o ".gz", prefix \o ".bz2"} |->
        CASE file = prefix -> PlainBytes(dump_string(units))
          [] file = prefix \o ".gz" -> GzipBytes(dump_string(units), t)
          [] OTHER -> bz2_bytes(dump_string(units))]

\* The file that is hashed, taken for the text file next to it.
PlainName(file) == IF file \in {"Packages", "Packages.gz", "Packages.bz2"} THEN "Packages" ELSE "Sources"

ReadPlain(files, key) == files[IndexKey(key[1], key[2], key[3], PlainName(key[4]))]

\* data = storage.read_file(prefix + path)
ReadBack(files, key) == files[key]

ChecksumLines(files, dist, component, subdir, prefix) ==
    {[checksum_type |-> ty, path |-> <<component, subdir, file>>,
      size |-> BytesLen(ReadBack(files, IndexKey(dist, component, subdir, file))),
      checksum |-> Digest(ty, ReadBack(files, IndexKey(dist, component, subdir, file)))] :
        ty \in ChecksumTypes, file \in {prefix, prefix \o ".gz", prefix \o ".bz2"}}

RECURSIVE WriteIndices(_, _, _, _, _)
WriteIndices(files, lists, todo, prefix, t) ==
    IF todo = {} THEN files
    ELSE LET key == CHOOSE k \in todo : TRUE
             subdir == IF prefix = "Sources" THEN Subdir("source") ELSE Subdir(key[3])
             new == IndexFilesOf(lists[key], prefix, t)
         IN WriteIndices(
                [x \in DOMAIN files \cup {IndexKey(key[1], key[2], subdir, file) : file \in DOMAIN new} |->
                    IF \E file \in DOMAIN new : x = IndexKey(key[1], key[2], subdir, file)
                    THEN new[x[4]] ELSE files[x]],
                lists, todo \ {key}, prefix, t)

EmittedKeys(lists, prefix) ==
    {IndexKey(key[1], key[2], IF prefix = "Sources" THEN Subdir("source") ELSE Subdir(key[3]), file) :
        key \in DOMAIN lists, file \in {prefix, prefix \o ".gz", prefix \o ".bz2"}}

\* checksums[dist] after the index files of `lists` are written to `files`.
ListedLines(files, lists, prefix, dist) ==
    UNION {ChecksumLines(files, dist, key[2],
                         IF prefix = "Sources" THEN Subdir("source") ELSE Subdir(key[3]), prefix) :
           key \in {k \in DOMAIN lists : k[1] = dist}}

\* update_release_files: the Release of a dist.
ReleaseOf(r, dist, t) ==
    [exists |-> TRUE, Date |-> t,
     Architectures |-> {key[3] : key \in {k \in DOMAIN r.package_lists : k[1] = dist}},
     Components |-> {key[2] : key \in {k \in DOMAIN r.package_lists \cup DOMAIN r.source_lists : k[1] = dist}},
     lines |-> r.checksums[dist]]

----------------------------------------------------------------------------
(* debrepo.update_repo: the run.                                            *)

NoLines == [dist \in DistNames |-> {}]

EmptyDebRun == [dists |-> {}, package_lists |-> << >>, source_lists |-> << >>, checksums |-> NoLines]

EmptyDebHist ==
    [outcome |-> "none", fresh |-> FALSE, repeat |-> FALSE, same |-> FALSE,
     before |-> << >>, rejected |-> << >>, emitted |-> {}, written |-> {}]

\* The units of every Packages and Sources file in storage.
IndexUnits(files) == [key \in {k \in DOMAIN files : files[k].enc = "plain"} |-> files[key].data]

Existing(paths) == {path \in paths : pool[path].exists}

DebAbort(h, outcome) ==
    /\ pc' = "idle"
    /\ run' = EmptyDebRun
    /\ hist' = [h EXCEPT !.outcome = outcome, !.before = << >>]

\* read_release_and_indices, then process_packages with its calls of
\* save_malformed_list for every dist.
DebProcessPackages(order) ==
    /\ pc = "idle"
    /\ LET read == read_release_and_indices(releases, indexFiles)
           done == PackagesLoop(pool, get_mtimes(read.package_lists), order, 1, args.force,
                                [outcome |-> "go", dists |-> read.dists,
                                 package_lists |-> read.package_lists, malformed_lists |-> << >>])
           h == [hist EXCEPT !.repeat = hist.outcome = "ok" /\ hist.fresh,
                             !.fresh = TRUE, !.same = FALSE,
                             !.before = IndexUnits(indexFiles),
                             !.rejected = << >>, !.emitted = {}, !.written = {}]
       IN IF read.raised THEN DebAbort(h, "read_raised") /\ UNCHANGED debMalformed
          ELSE IF done.outcome # "go" THEN DebAbort(h, done.outcome) /\ UNCHANGED debMalformed
          ELSE /\ debMalformed' =
                    [dist \in DistNames |->
                        IF dist \notin done.dists THEN debMalformed[dist]
                        ELSE IF Lookup(done.malformed_lists, dist, <<>>) # <<>>
                        THEN [exists |-> TRUE, lines |-> done.malformed_lists[dist]]
                        ELSE [exists |-> FALSE, lines |-> <<>>]]
               /\ run' = [dists |-> done.dists, package_lists |-> done.package_lists,
                          source_lists |-> read.source_lists, checksums |-> NoLines]
               /\ hist' = [h EXCEPT !.outcome = "running", !.rejected = done.malformed_lists]
               /\ pc' = "process_sources"
    /\ UNCHANGED <<args, now, pool, releases, indexFiles, debSigned, rpmStore, dumpVars>>

\* process_sources with the Packages files written before the .dsc files
\* are processed.
DebProcessSourcesAfterPackagesFiles(order) ==
    /\ pc = "process_sources"
    /\ LET done == SourcesLoop(pool, get_mtimes(run.source_lists), order, 1,
                               [outcome |-> "go", dists |-> run.dists, source_lists |-> run.source_lists])
       IN IF done.outcome # "go" THEN DebAbort(hist, done.outcome)
          ELSE /\ run' = [run EXCEPT !.dists = done.dists, !.source_lists = done.source_lists]
               /\ pc' = "update_packages_files"
               /\ UNCHANGED hist
    /\ indexFiles' = WriteIndices(indexFiles, run.package_lists, DOMAIN run.package_lists, "Packages", now)
    /\ UNCHANGED <<args, now, pool, releases, debMalformed, debSigned, rpmStore, dumpVars>>

DebProcessSources(order) ==
    /\ pc = "process_sources"
    /\ LET done == SourcesLoop(pool, get_mtimes(run.source_lists), order, 1,
                               [outcome |-> "go", dists |-> run.dists, source_lists |-> run.source_lists])
       IN IF done.outcome # "go" THEN DebAbort(hist, done.outcome)
          ELSE /\ run' = [run EXCEPT !.dists = done.dists, !.source_lists = done.source_lists]
               /\ pc' = "update_packages_files"
               /\ UNCHANGED hist
    /\ UNCHANGED <<args, now, debStore, rpmStore, dumpVars>>

\* update_packages_files / update_sources_files writing only the units
\* whose file is in pool/.
DebUpdateIndexFilesOfExisting(prefix, lists, at, next) ==
    /\ pc = at
    /\ LET kept == [key \in DOMAIN lists |-> {u \in lists[key] : pool[u.Filename].exists}]
       IN /\ indexFiles' = WriteIndices(indexFiles, kept, DOMAIN kept, prefix, now)
          /\ run' = [run EXCEPT !.checksums =
                        [dist \in DistNames |-> @[dist] \cup ListedLines(indexFiles', kept, prefix, dist)]]
          /\ hist' = [hist EXCEPT !.emitted = @ \cup EmittedKeys(kept, prefix)]
    /\ pc' = next
    /\ UNCHANGED <<args, now, pool, releases, debMalformed, debSigned, rpmStore, dumpVars>>

DebUpdateIndexFiles(prefix, lists, at, next) ==
    /\ pc = at
    /\ indexFiles' = WriteIndices(indexFiles, lists, DOMAIN lists, prefix, now)
    /\ run' = [run EXCEPT !.checksums =
                  [dist \in DistNames |-> @[dist] \cup ListedLines(indexFiles', lists, prefix, dist)]]
    /\ hist' = [hist EXCEPT !.emitted = @ \cup EmittedKeys(lists, prefix)]
    /\ pc' = next
    /\ UNCHANGED <<args, now, pool, releases, debMalformed, debSigned, rpmStore, dumpVars>>

DebUpdatePackagesFiles ==
    DebUpdateIndexFiles("Packages", run.package_lists, "update_packages_files", "update_sources_files")

DebUpdateSourcesFiles ==
    DebUpdateIndexFiles("Sources", run.source_lists, "update_sources_files", "update_release_files")

DebFinish ==
    /\ pc' = "idle"
    /\ run' = EmptyDebRun
    /\ hist' = [hist EXCEPT !.outcome = "ok", !.before = << >>, !.written = run.dists,
                            !.same = IndexUnits(indexFiles) = hist.before]

\* update_release_files: every dist gets its Release and, with --sign, its
\* signatures right after; gpg failing on a dist ends the run there.
DebUpdateReleaseFiles ==
    /\ pc = "update_release_files"
    /\ \/ /\ ~args.sign
          /\ releases' = [dist \in DistNames |-> IF dist \in run.dists THEN ReleaseOf(run, dist, now) ELSE releases[dist]]
          /\ DebFinish
          /\ UNCHANGED debSigned
       \/ /\ args.sign
          /\ releases' = [dist \in DistNames |-> IF dist \in run.dists THEN ReleaseOf(run, dist, now) ELSE releases[dist]]
          /\ debSigned' = [dist \in DistNames |->
                             IF dist \in run.dists THEN [exists |-> TRUE, signed |-> releases'[dist]]
                             ELSE debSigned[dist]]
          /\ DebFinish
       \/ /\ args.sign
          /\ \E first \in run.dists :
                releases' = [releases EXCEPT ![first] = ReleaseOf(run, first, now)]
          /\ DebAbort(hist, "sign_failed")
          /\ UNCHANGED debSigned
    /\ UNCHANGED <<args, now, pool, indexFiles, debMalformed, rpmStore, dumpVars>>

----------------------------------------------------------------------------
(* The environment of a DEB repository, between two runs.                   *)

PutPool(path, content, mtime) ==
    /\ pc = "idle"
    /\ now < MaxTime
    /\ now' = now + 1
    /\ mtime \in Mtimes(now')
    /\ pool' = [pool EXCEPT ![path] = [exists |-> TRUE, content |-> content, mtime |-> mtime]]
    /\ hist' = [hist EXCEPT !.fresh = FALSE]
    /\ UNCHANGED <<args, pc, run, releases, indexFiles, debMalformed, debSigned, rpmStore, dumpVars>>

RemovePool(path) ==
    /\ pc = "idle"
    /\ now < MaxTime
    /\ pool[path].exists
    /\ now' = now + 1
    /\ pool' = [pool EXCEPT ![path] = NoPoolFile]
    /\ hist' = [hist EXCEPT !.fresh = FALSE]
    /\ UNCHANGED <<args, pc, run, releases, indexFiles, debMalformed, debSigned, rpmStore, dumpVars>>

----------------------------------------------------------------------------
(* rpmrepo.dump_primary: the <rpm:requires> of a package.  A name is the    *)
(* sequence of its characters.                                              *)

MaxRequires == 3

\* The characters of the names, in the order of their code points.
Ascii ==
    <<"(", ")", ".", "0", "1", "2", "3", "4", "5", "6", "7", "8", "9",
      "B", "C", "G", "I", "L", "_", "a", "b", "c", "h", "i", "l", "m", "o", "s", "t">>

Ord(c) == CHOOSE i \in 1..Len(Ascii) : Ascii[i] = c

isnumeric(c) == c \in {"0", "1", "2", "3", "4", "5", "6", "7", "8", "9"}

LibcSo6 == <<"l", "i", "b", "c", ".", "s", "o", ".", "6">>

Bits64 == <<"(", "6", "4", "b", "i", "t", ")">>

RequireNames ==
    {<<"b", "a", "s", "h">>,
     LibcSo6,
     LibcSo6 \o <<"(", ")">> \o Bits64,
     LibcSo6 \o <<"(", "G", "L", "I", "B", "C", "_", "2", ".", "1", "4", ")">> \o Bits64,
     LibcSo6 \o <<"(", "G", "L", "I", "B", "C", "_", "2", ".", "4", ")">> \o Bits64,
     <<"l", "i", "b", "m", ".", "s", "o", ".", "6">> \o <<"(", ")">> \o Bits64}

\* str < str.
StrLess(a, b) ==
    \E k \in 1..(Len(a) + 1) :
        /\ k <= Len(b)
        /\ \A i \in 1..(k - 1) : a[i] = b[i]
        /\ k = Len(a) + 1 \/ Ord(a[k]) < Ord(b[k])

\* sorted(fmt['requires'], key=sort_key): the keys differ by their names.
Sorted(names) == CHOOSE o \in Orders(names) : \A i, j \in 1..Len(o) : i < j => StrLess(o[i], o[j])

startswith(str, prefix) == Len(str) >= Len(prefix) /\ SubSeq(str, 1, Len(prefix)) = prefix

\* str.find(c) + 1: 0 when c is not in str.
Find(str, c) ==
    IF \E i \in 1..Len(str) : str[i] = c
    THEN CHOOSE i \in 1..Len(str) : str[i] = c /\ \A j \in 1..(i - 1) : str[j] # c
    ELSE 0

From(str, i) == SubSeq(str, i, Len(str))

\* The loop "for i in range(len(ver)): if ver[i].isnumeric()": ver[None:] is ver.
FromFirstNumber(ver) ==
    IF \E i \in 1..Len(ver) : isnumeric(ver[i])
    THEN From(ver, CHOOSE i \in 1..Len(ver) : isnumeric(ver[i]) /\ \A j \in 1..(i - 1) : ~isnumeric(ver[j]))
    ELSE ver

\* The numeric segments of a version of digits and dots.
RECURSIVE Segments(_, _, _)
Segments(ver, i, acc) ==
    IF i > Len(ver) THEN acc
    ELSE IF isnumeric(ver[i])
    THEN Segments(ver, i + 1,
            IF acc = <<>> \/ (i > 1 /\ ~isnumeric(ver[i - 1]))
            THEN Append(acc, Ord(ver[i]) - Ord("0"))
            ELSE [acc EXCEPT ![Len(acc)] = 10 * @ + Ord(ver[i]) - Ord("0")])
    ELSE Segments(ver, i + 1, acc)

\* univers.rpm.compare_rpm_versions (rpmvercmp) on versions of digits and
\* dots: 1, 0 or -1.
compare_rpm_versions(ver1, ver2) ==
    LET a == Segments(ver1, 1, <<>>)
        b == Segments(ver2, 1, <<>>)
        differ == {k \in 1..Len(a) : k <= Len(b) /\ a[k] # b[k]}
        first == CHOOSE k \in differ : \A j \in differ : k <= j
    IN IF differ # {} THEN (IF a[first] > b[first] THEN 1 ELSE -1)
       ELSE IF Len(a) > Len(b) THEN 1
       ELSE IF Len(a) < Len(b) THEN -1
       ELSE 0

compare_dependency(dep1, dep2) ==
    LET ver1_idx == Find(dep1, "(")
        ver2_idx == Find(dep2, "(")
        ver1_e == From(From(dep1, ver1_idx), Find(From(dep1, ver1_idx), ")"))
        ver2_e == From(From(dep2, ver2_idx), Find(From(dep2, ver2_idx), ")"))
        ver1 == From(dep1, ver1_idx + 1)
        ver2 == From(dep2, ver2_idx + 1)
        num1 == FromFirstNumber(ver1)
        num2 == FromFirstNumber(ver2)
        ret1 == compare_rpm_versions(SubSeq(num1, 1, Len(num1) - Len(ver1_e)),
                                     SubSeq(num2, 1, Len(num2) - Len(ver2_e)))
    IN IF dep1 = dep2 THEN 0
       ELSE IF ver1_idx = 0 /\ ver2_idx = 0 THEN 0
       ELSE IF ver1_idx = 0 THEN 2
       ELSE IF ver2_idx = 0 THEN 1
       ELSE IF Find(From(dep1, ver1_idx), ")") = 0 /\ Find(From(dep2, ver2_idx), ")") = 0 THEN -1
       ELSE IF Find(From(dep1, ver1_idx), ")") = 0 THEN 2
       ELSE IF Find(From(dep2, ver2_idx), ")") = 0 THEN 1
       ELSE IF ver1 = ver1_e /\ ver2 = ver2_e THEN 0
       ELSE IF ver1 = ver1_e THEN 2
       ELSE IF ver2 = ver2_e THEN 1
       ELSE IF ret1 = -1 THEN 2
       ELSE ret1

NoRequire == [has |-> FALSE, name |-> <<>>]

DumpStart == [i |-> 1, libc_require_highest |-> NoRequire]

\* One turn of the loop over the sorted requires.
DumpRequire ==
    /\ pc = "requires"
    /\ run.i <= Cardinality(package)
    /\ LET requires_name == Sorted(package)[run.i]
           highest == run.libc_require_highest
       IN IF startswith(requires_name, LibcSo6)
          THEN /\ run' = [i |-> run.i + 1,
                          libc_require_highest |->
                             IF ~highest.has \/ compare_dependency(highest.name, requires_name) = 2
                             THEN [has |-> TRUE, name |-> requires_name]
                             ELSE highest]
               /\ UNCHANGED entries
          ELSE /\ entries' = (IF highest.has THEN Append(entries, highest.name) ELSE entries)
                                \o <<requires_name>>
               /\ run' = [i |-> run.i + 1, libc_require_highest |-> NoRequire]
    /\ UNCHANGED <<args, now, pc, hist, package, rpmStore, debStore>>

\* The end of the loop: "res += '    </rpm:requires>\n'".
DumpEndRequires ==
    /\ pc = "requires"
    /\ run.i > Cardinality(package)
    /\ pc' = "dumped"
    /\ UNCHANGED <<args, now, run, hist, package, entries, rpmStore, debStore>>

----------------------------------------------------------------------------
(* rpmfile.flags_to_str and the provides / requires that                    *)
(* rpmrepo.header_to_primary builds from a header.  A str is the sequence   *)
(* of its characters.                                                       *)

\* Flags are drawn from 0..MaxFlags; a header holds at most MaxEntries
\* PROVIDE entries and at most MaxEntries REQUIRE entries.
MaxFlags == 31

MaxEntries == 2

\* Python's None: a value that is no str.
None == <<"None">>

RuntimeError == <<"RuntimeError">>

RPMSENSE_LESS == 2

RPMSENSE_GREATER == 4

RPMSENSE_EQUAL == 8

\* RPMSENSE_EQUAL ^ RPMSENSE_SENSEMASK.
RPMSENSE_NOTEQUAL == 6

RPMSENSE_RPMLIB == 16777216

\* a & b on non-negative integers.
RECURSIVE BitAnd(_, _)
BitAnd(a, b) ==
    IF a = 0 \/ b = 0 THEN 0
    ELSE (a % 2) * (b % 2) + 2 * BitAnd(a \div 2, b \div 2)

flags_to_str(flags) ==
    LET f == BitAnd(flags, 14)
    IN IF f = RPMSENSE_NOTEQUAL THEN <<"N", "E">>
       ELSE IF f = RPMSENSE_EQUAL THEN <<"E", "Q">>
       ELSE IF BitAnd(f, RPMSENSE_LESS) # 0 THEN <<"L", "T">>
       ELSE IF BitAnd(f, RPMSENSE_GREATER) # 0 THEN <<"G", "T">>
       ELSE IF BitAnd(f, RPMSENSE_LESS + RPMSENSE_EQUAL) # 0 THEN <<"L", "E">>
       ELSE IF BitAnd(f, RPMSENSE_GREATER + RPMSENSE_EQUAL) # 0 THEN <<"G", "E">>
       ELSE IF f = 0 THEN None
       ELSE RuntimeError

\* s in str.
Contains(str, s) == \E i \in 1..(Len(str) - Len(s) + 1) : SubSeq(str, i, i + Len(s) - 1) = s

is_primary_file(file_name) ==
    \/ startswith(file_name, <<"/", "e", "t", "c", "/">>)
    \/ file_name = <<"/", "u", "s", "r", "/", "l", "i", "b", "/", "s", "e", "n", "d", "m", "a", "i", "l">>
    \/ Contains(file_name, <<"b", "i", "n", "/">>)

\* The match of ^(\d+:)?([^-]*)(-[^-]*)?$ : (epoch, ver, rel); no match
\* (a RuntimeError) when ver_str holds two "-".
parse_ver_str(ver_str) ==
    LET colon == Find(ver_str, ":")
        group1 == colon > 1 /\ \A i \in 1..(colon - 1) : isnumeric(ver_str[i])
        rest == IF group1 THEN From(ver_str, colon + 1) ELSE ver_str
        dash == Find(rest, "-")
    IN IF ver_str = <<>> THEN [match |-> TRUE, epoch |-> None, ver |-> None, rel |-> None]
       ELSE IF dash # 0 /\ Find(From(rest, dash + 1), "-") # 0 THEN [match |-> FALSE]
       ELSE [match |-> TRUE,
             epoch |-> IF group1 THEN SubSeq(ver_str, 1, colon - 1) ELSE <<"0">>,
             ver |-> IF dash = 0 THEN rest ELSE SubSeq(rest, 1, dash - 1),
             rel |-> IF dash = 0 THEN None ELSE From(rest, dash + 1)]

\* The (name, epoch, rel, ver) and the dict of one PROVIDE / REQUIRE entry.
EntryNerv(entry) ==
    LET v == parse_ver_str(entry.version)
    IN Nerv(entry.name, v.epoch, v.rel, v.ver)

NervEntry(entry) ==
    LET v == parse_ver_str(entry.version)
    IN [name |-> entry.name, epoch |-> v.epoch, rel |-> v.rel, ver |-> v.ver,
        flags |-> flags_to_str(entry.flags)]

\* The loop over zip(providename, provideversion, provideflags).
RECURSIVE provides_dict(_, _, _)
provides_dict(header, i, acc) ==
    IF i > Len(header.provides) THEN acc
    ELSE provides_dict(header, i + 1,
            DictSet(acc, EntryNerv(header.provides[i]), NervEntry(header.provides[i])))

\* The loop over zip(requirename, requireversion, requireflags).
RECURSIVE requires_dict(_, _, _)
requires_dict(header, i, acc) ==
    IF i > Len(header.requires) THEN acc
    ELSE LET entry == header.requires[i]
             nerv == EntryNerv(entry)
             provided == provides_dict(header, 1, <<>>)
             full_filenames == {f.name : f \in {g \in SeqToSet(header.files) : g.type = "file"}}
         IN requires_dict(header, i + 1,
               IF BitAnd(entry.flags, RPMSENSE_RPMLIB) # 0 THEN acc
               ELSE IF DictHas(provided, nerv) /\ NervEntry(entry) = DictGet(provided, nerv) THEN acc
               ELSE IF entry.name \in full_filenames /\ is_primary_file(entry.name) THEN acc
               ELSE DictSet(acc, nerv,
                       [name |-> entry.name, epoch |-> nerv.epoch, rel |-> nerv.rel, ver |-> nerv.ver,
                        flags |-> flags_to_str(entry.flags),
                        pre |-> IF BitAnd(entry.flags, 4352) # 0 THEN <<"1">> ELSE None]))

\* The headers the provides / requires of header_to_primary are applied to.
SeqsUpTo(S, n) == UNION {[1..k -> S] : k \in 0..n}

DepEntry(name, version, flags) == [name |-> name, version |-> version, flags |-> flags]

ProvideEntries ==
    {DepEntry(<<"a">>, <<"1", "-", "2">>, f) : f \in {RPMSENSE_EQUAL, RPMSENSE_EQUAL + RPMSENSE_GREATER}}
    \cup {DepEntry(<<"a">>, <<>>, 0)}

RequireEntries ==
    {DepEntry(<<"a">>, <<"1", "-", "2">>, f) :
        f \in {RPMSENSE_EQUAL, RPMSENSE_EQUAL + RPMSENSE_GREATER,
               RPMSENSE_RPMLIB + RPMSENSE_EQUAL, 4352 + RPMSENSE_EQUAL}}
    \cup {DepEntry(<<"/", "b", "i", "n", "/", "s", "h">>, <<>>, 0),
          DepEntry(<<"a">>, <<"1", "-", "2", "-", "3">>, RPMSENSE_EQUAL),
          DepEntry(<<"a">>, <<"1", ":", "2">>, RPMSENSE_EQUAL)}

Headers ==
    [provides : SeqsUpTo(ProvideEntries, MaxEntries),
     requires : SeqsUpTo(RequireEntries, MaxEntries),
     files : {<<[name |-> <<"/", "b", "i", "n", "/", "s", "h">>, type |-> "file"]>>}]

Call == [returned |-> FALSE]

Return == [returned |-> TRUE]

\* rpmfile.flags_to_str(package).
FlagsToStr ==
    /\ pc = "flags_to_str"
    /\ ~run.returned
    /\ run' = Return
    /\ entries' = flags_to_str(package)
    /\ UNCHANGED <<args, now, pc, hist, package, rpmStore, debStore>>

\* The provides and requires of rpmrepo.header_to_primary(package, ...).
HeaderToPrimary ==
    /\ pc = "header_to_primary"
    /\ ~run.returned
    /\ run' = Return
    /\ entries' =
          IF \E entry \in SeqToSet(package.provides) \cup SeqToSet(package.requires) :
                ~parse_ver_str(entry.version).match
          THEN [raised |-> TRUE]
          ELSE [raised |-> FALSE,
                provides |-> provides_dict(package, 1, <<>>),
                requires |-> requires_dict(package, 1, <<>>)]
    /\ UNCHANGED <<args, now, pc, hist, package, rpmStore, debStore>>

----------------------------------------------------------------------------
(* rpmrepo.dump_primary: the text and attribute payloads of one <package>.  *)

\* xml.sax.saxutils.escape.
RECURSIVE escape(_)
escape(data) ==
    IF data = <<>> THEN <<>>
    ELSE (CASE Head(data) = "&" -> <<"&", "a", "m", "p", ";">>
            [] Head(data) = "<" -> <<"&", "l", "t", ";">>
            [] Head(data) = ">" -> <<"&", "g", "t", ";">>
            [] OTHER -> <<Head(data)>>) \o escape(Tail(data))

\* ' '.join(entry) of an <rpm:entry>: name="...", then the components that
\* are not None (the name of a component is kept as one token).
RECURSIVE EntryAttrs(_, _)
EntryAttrs(item, components) ==
    IF components = <<>> THEN <<"n", "a", "m", "e", "=", "\"">> \o item.name \o <<"\"">>
    ELSE LET component == components[Len(components)]
             head == EntryAttrs(item, SubSeq(components, 1, Len(components) - 1))
         IN IF item[component] = None THEN head
            ELSE head \o <<" ", component, "=", "\"">> \o item[component] \o <<"\"">>

\* "x or ''".
OrEmpty(x) == IF x = None \/ x = <<>> THEN <<>> ELSE x

Payload(element, payload) == [element |-> element, payload |-> payload]

\* The payloads dump_primary writes for a package, in the order of the
\* document.  Each map holds at most one entry here, so sorted() changes
\* nothing, and no name starts with libc.so.6 (that part of the loop over
\* the requires is DumpRequire).
dump_primary_package(p) ==
    LET fmt == p.format
        RpmEntries(element, dict) ==
            [i \in 1..Len(dict) |->
                Payload(element, escape(EntryAttrs(dict[i].v, <<"flags", "epoch", "ver", "rel">>)))]
        primary_dirs_files == SelectSeq(fmt.files, LAMBDA file : is_primary_file(file.name))
    IN <<Payload("name", p.name),
         Payload("summary", escape(OrEmpty(p.summary))),
         Payload("description", escape(OrEmpty(p.description))),
         Payload("packager", escape(OrEmpty(p.packager))),
         Payload("url", OrEmpty(p.url)),
         Payload("location", p.location),
         Payload("rpm:license", escape(fmt.license))>>
       \o (IF OrEmpty(fmt.vendor) # <<>> THEN <<Payload("rpm:vendor", escape(fmt.vendor))>> ELSE <<>>)
       \o <<Payload("rpm:group", OrEmpty(fmt.group)),
            Payload("rpm:buildhost", fmt.buildhost),
            Payload("rpm:sourcerpm", fmt.sourcerpm)>>
       \o RpmEntries("rpm:provides", fmt.provides)
       \o [i \in 1..Len(fmt.requires) |->
             Payload("rpm:requires",
                     escape(EntryAttrs(fmt.requires[i].v, <<"flags", "epoch", "ver", "rel", "pre">>)))]
       \o RpmEntries("rpm:obsoletes", fmt.obsoletes)
       \o RpmEntries("rpm:conflicts", fmt.conflicts)
       \o [i \in 1..Len(primary_dirs_files) |-> Payload("file", primary_dirs_files[i].name)]

\* The texts of the fields of a package, and the packages dump_primary is
\* applied to.
Texts == {<<"a">>, <<"a", "&", "<", ">">>}

EntryOf(name) ==
    <<[k |-> Nerv(name, <<"0">>, None, <<"1">>),
       v |-> [name |-> name, flags |-> <<"E", "Q">>, epoch |-> <<"0">>, ver |-> <<"1">>,
              rel |-> None, pre |-> None]]>>

Packages ==
    {[name |-> t.name, summary |-> t.summary, description |-> t.description,
      packager |-> t.packager, url |-> t.url, location |-> t.location,
      format |-> [license |-> t.license, vendor |-> t.vendor, group |-> t.group,
                  buildhost |-> t.buildhost, sourcerpm |-> t.sourcerpm,
                  provides |-> EntryOf(t.provides), requires |-> EntryOf(t.requires),
                  obsoletes |-> <<>>, conflicts |-> EntryOf(t.conflicts),
                  files |-> <<[name |-> <<"/", "e", "t", "c", "/">> \o t.file, type |-> "file"]>>]] :
        t \in [name : Texts, summary : Texts, description : Texts, packager : Texts,
               url : Texts, location : Texts, license : Texts, vendor : Texts \cup {None},
               group : Texts \cup {None}, buildhost : Texts, sourcerpm : Texts,
               provides : Texts, requires : Texts, conflicts : {<<"a">>}, file : Texts]}

\* rpmrepo.dump_primary({nerv: package}).
DumpPrimary ==
    /\ pc = "dump_primary"
    /\ ~run.returned
    /\ run' = Return
    /\ entries' = dump_primary_package(package)
    /\ UNCHANGED <<args, now, pc, hist, package, rpmStore, debStore>>

----------------------------------------------------------------------------
(* rpmrepo.header_to_other: the changelog of a package.                     *)

CHANGELOG_LIMIT == 10

\* A header holds at most MaxChangelog changelog entries.
MaxChangelog == 12

\* A header value that holds one element is that element, not a list.
HeaderValue(list) == IF Len(list) = 1 THEN [isList |-> FALSE, v |-> list[1]] ELSE [isList |-> TRUE, v |-> list]

\* The headers with n changelog entries; entry i has the author "n<i>", the
\* text "t<i>" followed by tail, and the time 100 + i.
ChangelogHeader(n, tail) ==
    [CHANGELOGNAME |-> HeaderValue([i \in 1..n |-> <<"n", ToString(i)>>]),
     CHANGELOGTEXT |-> HeaderValue([i \in 1..n |-> <<"t", ToString(i)>> \o tail]),
     CHANGELOGTIME |-> HeaderValue([i \in 1..n |-> 100 + i])]

\* "if not isinstance(x, list): x = [x]".
AsList(x) == IF x.isList THEN x.v ELSE <<x.v>>

\* The slice s[::-1] that leaves the order as it is.
NotReversed(s) == s

\* s[::-1].
Reversed(s) == [i \in 1..Len(s) |-> s[Len(s) + 1 - i]]

\* s[:n].
Prefix(s, n) == SubSeq(s, 1, IF Len(s) < n THEN Len(s) ELSE n)

\* package['changelog'] of header_to_other(header, sha256).
header_to_other_changelog(header) ==
    LET changelog_name == Reversed(Prefix(AsList(header.CHANGELOGNAME), CHANGELOG_LIMIT))
        changelog_text == Reversed(Prefix(AsList(header.CHANGELOGTEXT), CHANGELOG_LIMIT))
        changelog_date == Reversed(Prefix(AsList(header.CHANGELOGTIME), CHANGELOG_LIMIT))
        zipped == CHOOSE n \in 0..Len(changelog_date) :
                     /\ n <= Len(changelog_name) /\ n <= Len(changelog_text)
                     /\ n = Len(changelog_date) \/ n = Len(changelog_name) \/ n = Len(changelog_text)
    IN [i \in 1..zipped |->
          [author |-> escape(changelog_name[i]),
           date |-> changelog_date[i],
           text |-> escape(changelog_text[i])]]

HeaderToOther ==
    /\ pc = "header_to_other"
    /\ ~run.returned
    /\ run' = Return
    /\ entries' = header_to_other_changelog(package)
    /\ UNCHANGED <<args, now, pc, hist, package, rpmStore, debStore>>

----------------------------------------------------------------------------
(* rpmrepo.parse_metafiles over a storage that misses children of           *)
(* repomd.xml.                                                              *)

\* The run that published one package with the given header.
PublishedRun(header) ==
    LET path == "Packages/a.rpm"
        files == [p \in RpmPaths |->
                    IF p = path THEN [exists |-> TRUE, content |-> header, mtime |-> 10] ELSE NoFile]
        added == AddFiles(files, <<<<path, 10>>>>, 1, FALSE,
                          [raised |-> FALSE, maps |-> NoMaps, malformed_list |-> <<>>])
    IN [EmptyRun EXCEPT !.maps = added.maps, !.revision = 1, !.stamp = 1]

\* The storages parse_metafiles is applied to: no repomd.xml, or the
\* repomd.xml of a published run with the <data> of the kinds in listed,
\* and of its three children those of the kinds in stored.
MetaStorages ==
    {[doc |-> NoRepomd, files |-> WriteChildren(<<>>, PublishedRun(header))] :
        header \in RpmContents \ {Malformed}}
    \cup
    {[doc |-> [RunRepomd(PublishedRun(header)) EXCEPT
                  !.data = [kind \in Kinds |-> IF kind \in listed THEN @[kind] ELSE NoData]],
      files |-> [n \in {RunName(PublishedRun(header), kind) : kind \in stored} |->
                    WriteChildren(<<>>, PublishedRun(header))[n]]] :
        header \in RpmContents \ {Malformed}, listed \in SUBSET Kinds, stored \in SUBSET Kinds}

ParseMetafiles ==
    /\ pc = "parse_metafiles"
    /\ ~run.returned
    /\ run' = Return
    /\ entries' = parse_metafiles(package.doc, package.files)
    /\ UNCHANGED <<args, now, pc, hist, package, rpmStore, debStore>>

----------------------------------------------------------------------------
(* debrepo.split_pkg_path on the keys of .deb files.  A key is the list of  *)
(* its directories and the parts of its file name                           *)
(* <package>_<n1>.<n2>...-<digit><tail>_<arch>.deb, where tail is a list of *)
(* tokens: ".", "-" and words that hold neither.                            *)

DebKeys ==
    [dirs : {<<"pool", "d1", "main", "f">>, <<"pool", "main", "f", "foo">>,
             <<"debian", "pool", "d1", "main">>, <<"pool", "d1", "contrib", "f">>},
     package : {"foo"},
     numbers : {2, 3},
     tail : {<<>>, <<"1">>, <<".", "5">>, <<"-", "stretch">>, <<".", "5", "-", "buster">>},
     arch : {"amd64", "all"}]

\* re.match('^pool/(?P<dist>[^/]+)/main', pkg_path): the group dist, "" when
\* the expression does not match.
match_path(key) ==
    IF Len(key.dirs) >= 3 /\ key.dirs[1] = "pool" /\ key.dirs[3] = "main" THEN key.dirs[2] ELSE ""

\* re.match(expr, pkg_path): <version> takes 3 or 4 numbers and "-<digit>",
\* <revision> a "." and a word, <dist> the rest of the tail after one "-".
match_package(key) ==
    LET rest == IF key.tail # <<>> /\ key.tail[1] = "." THEN SubSeq(key.tail, 3, Len(key.tail)) ELSE key.tail
        dist == IF rest # <<>> /\ rest[1] = "-" THEN Tail(rest) ELSE rest
    IN PoolPath(match_path(key), key.package, "deb",
                key.numbers \in 3..4 /\ Len(dist) <= 1,
                IF Len(dist) = 1 THEN dist[1] ELSE "", key.arch)

SplitPkgPath ==
    /\ pc = "split_pkg_path"
    /\ ~run.returned
    /\ run' = Return
    /\ entries' = split_pkg_path(match_package(package))
    /\ UNCHANGED <<args, now, pc, hist, package, rpmStore, debStore>>

----------------------------------------------------------------------------
(* debrepo.Package and debrepo.Source: control files.  A str is the         *)
(* sequence of its tokens: "\n", " ", ":" and words that hold none of them. *)

\* "if s:" for a str or None.
StrTruth(s) == s # None /\ s # <<>>

\* s.strip(chars): strip() takes the whitespace {" ", "\n"}.
RECURSIVE strip(_, _)
strip(s, chars) ==
    IF s # <<>> /\ s[1] \in chars THEN strip(Tail(s), chars)
    ELSE IF s # <<>> /\ s[Len(s)] \in chars THEN strip(SubSeq(s, 1, Len(s) - 1), chars)
    ELSE s

\* s.split('\n').
RECURSIVE split_lines(_)
split_lines(s) ==
    IF Find(s, "\n") = 0 THEN <<s>>
    ELSE <<SubSeq(s, 1, Find(s, "\n") - 1)>> \o split_lines(From(s, Find(s, "\n") + 1))

\* "\n".join(lines).
RECURSIVE join_lines(_)
join_lines(lines) ==
    IF lines = <<>> THEN <<>>
    ELSE IF Len(lines) = 1 THEN lines[1]
    ELSE lines[1] \o <<"\n">> \o join_lines(Tail(lines))

\* The loop of Package.parse_string over the lines; "key, value =
\* line.split(':', 1)" raises ValueError on a line without ":".
RECURSIVE PackageLoop(_, _, _)
PackageLoop(lines, i, st) ==
    IF i > Len(lines) \/ st.raised THEN st
    ELSE LET line == lines[i]
         IN IF startswith(line, <<" ">>)
            THEN PackageLoop(lines, i + 1,
                    [st EXCEPT !.value = IF StrTruth(@) THEN @ \o <<"\n">> \o line ELSE line])
            ELSE IF Find(line, ":") = 0 THEN [st EXCEPT !.raised = TRUE]
            ELSE PackageLoop(lines, i + 1,
                    [raised |-> FALSE,
                     key |-> SubSeq(line, 1, Find(line, ":") - 1),
                     value |-> From(line, Find(line, ":") + 1),
                     result |-> IF StrTruth(st.key)
                                THEN DictSet(st.result, st.key, strip(st.value, {" ", "\n"}))
                                ELSE st.result])

Package_parse_string(data) ==
    LET st == PackageLoop(split_lines(strip(data, {" ", "\n"})), 1,
                          [raised |-> FALSE, key |-> None, value |-> None, result |-> <<>>])
    IN [raised |-> st.raised,
        fields |-> IF st.raised THEN <<>>
                   ELSE IF StrTruth(st.key)
                   THEN DictSet(st.result, st.key, strip(st.value, {" ", "\n"}))
                   ELSE st.result]

Package_dump_string(fields) ==
    join_lines([i \in 1..Len(fields) |-> fields[i].k \o <<":", " ">> \o fields[i].v])

\* The loop of Source.parse_string over the lines.
RECURSIVE SourceLoop(_, _, _)
SourceLoop(lines, i, st) ==
    IF i > Len(lines) \/ st.raised THEN st
    ELSE LET line == lines[i]
             key == SubSeq(line, 1, Find(line, ":") - 1)
         IN IF startswith(line, <<" ">>)
            THEN SourceLoop(lines, i + 1, [st EXCEPT !.value = @ \o <<"\n">> \o line])
            ELSE IF Find(line, ":") = 0 THEN [st EXCEPT !.raised = TRUE]
            ELSE SourceLoop(lines, i + 1,
                    [raised |-> FALSE,
                     key |-> IF key = <<"Source">> THEN <<"Package">> ELSE key,
                     value |-> From(line, Find(line, ":") + 1),
                     result |-> IF StrTruth(st.key)
                                THEN DictSet(st.result, st.key, strip(st.value, {" "}))
                                ELSE st.result])

Source_parse_string(data) ==
    LET st == SourceLoop(split_lines(strip(data, {" ", "\n"})), 1,
                         [raised |-> FALSE, key |-> None, value |-> None, result |-> <<>>])
    IN [raised |-> st.raised,
        fields |-> IF st.raised THEN <<>>
                   ELSE IF StrTruth(st.key)
                   THEN DictSet(st.result, st.key, strip(st.value, {" "}))
                   ELSE st.result]

Source_dump_string(fields) ==
    join_lines([i \in 1..Len(fields) |->
                  IF startswith(fields[i].v, <<"\n">>)
                  THEN fields[i].k \o <<":">> \o fields[i].v
                  ELSE fields[i].k \o <<":", " ">> \o fields[i].v])

----------------------------------------------------------------------------
(* Control stanzas, .deb and .dsc files given to Package and Source.        *)

\* A field of a control stanza: its key and the lines of its value (the
\* first line may be empty, the others are continuation lines).
Field(k, lines) == [k |-> <<k>>, lines |-> lines]

\* The value of a field as Debian defines it: the text after "key:" without
\* the blank that follows the colon.
RECURSIVE FieldValue(_)
FieldValue(field) ==
    IF Len(field.lines) = 1 THEN field.lines[1]
    ELSE FieldValue([field EXCEPT !.lines = SubSeq(@, 1, Len(@) - 1)])
            \o <<"\n", " ">> \o field.lines[Len(field.lines)]

\* The text of a stanza: "key: value" lines, "key:" when the first line of
\* the value is empty.
ControlText(fields) ==
    join_lines([i \in 1..Len(fields) |->
                  fields[i].k \o <<":">>
                    \o (IF fields[i].lines[1] = <<>> THEN <<>> ELSE <<" ">>)
                    \o FieldValue(fields[i])])

\* Stanzas of binary packages: single-line fields, a multi-line field, a
\* field whose first line is empty.
ControlStanzas ==
    LET head == <<Field("Package", <<<<"foo">>>>), Field("Version", <<<<"1.0.0-1">>>>)>>
    IN {head,
        head \o <<Field("Description", <<<<"short">>, <<"long", " ", "text">>>>)>>,
        head \o <<Field("Conffiles", <<<<>>, <<"/etc/foo", " ", "abc">>>>),
                  Field("Architecture", <<<<"amd64">>>>)>>}

\* The members of the ar archive that can hold the control file.
ControlMembers == {"control.tar.gz", "control.tar.xz", "control.tar.zst"}

\* A .deb file: the members "ar t" lists and the ./control inside its
\* control.tar.* member.
DebFiles == [members : SUBSET ControlMembers, control : ControlStanzas]

\* The stanza of a .dsc file, which ends with a newline; a signed one is
\* wrapped in a PGP clear-signature.
DscStanzas ==
    LET head == <<Field("Format", <<<<"3.0">>>>), Field("Source", <<<<"bar">>>>),
                  Field("Version", <<<<"1.0.0-1">>>>)>>
        sums == <<Field("Checksums-Sha1", <<<<>>, <<"s1", " ", "10", " ", "bar.tar.xz">>>>),
                  Field("Checksums-Sha256", <<<<>>, <<"s2", " ", "10", " ", "bar.tar.xz">>>>),
                  Field("Files", <<<<>>, <<"m5", " ", "10", " ", "bar.tar.xz">>>>)>>
    IN {head \o sums,
        head \o <<Field("Build-Depends", <<<<"debhelper">>>>)>> \o sums}

DscText(dsc) ==
    IF dsc.signed
    THEN <<"-----BEGIN", " ", "PGP", " ", "SIGNED", " ", "MESSAGE-----", "\n",
           "Hash", ":", " ", "SHA256", "\n", "\n">>
            \o ControlText(dsc.fields)
            \o <<"\n", "\n", "-----BEGIN", " ", "PGP", " ", "SIGNATURE-----", "\n", "\n",
                 "iQ", "\n", "-----END", " ", "PGP", " ", "SIGNATURE-----", "\n">>
    ELSE ControlText(dsc.fields) \o <<"\n">>

\* The key of the .dsc in storage: os.path.dirname and os.path.basename.
DscLocations ==
    {[dirname |-> "pool/d1/main/b/bar", basename |-> "bar_1.0.0-1.dsc"],
     [dirname |-> "pool/main/b/bar", basename |-> "bar_1.0.0-1.dsc"]}

DscFiles == [fields : DscStanzas, signed : BOOLEAN, location : DscLocations]

\* Package.parse_deb: "ar t | grep control.tar.gz" chooses the command;
\* check_output raises CalledProcessError when ar finds no such member.
parse_deb(debfile) ==
    IF "control.tar.gz" \in debfile.members \/ "control.tar.xz" \in debfile.members
    THEN Package_parse_string(strip(ControlText(debfile.control) \o <<"\n">>, {" ", "\n"}))
    ELSE [raised |-> TRUE, fields |-> <<>>]

\* file_checksum(dscfile, checksum_type) as the text of the digest.
file_checksum(data, checksum_type) == ToString(Digest(checksum_type, data))

\* The loop of parse_dsc over file_fields; self.fields[field] of a missing
\* field is a KeyError.
RECURSIVE AddFileInformation(_, _, _, _)
AddFileInformation(unit, file_fields, dscfile, file_information) ==
    IF file_fields = <<>> \/ unit.raised THEN unit
    ELSE LET field == file_fields[1].field
         IN IF ~DictHas(unit.fields, field) THEN [raised |-> TRUE, fields |-> <<>>]
            ELSE AddFileInformation(
                    IF DictGet(unit.fields, field) = <<>> THEN unit
                    ELSE [unit EXCEPT !.fields =
                            DictSet(@, field,
                                    DictGet(@, field)
                                        \o <<"\n", " ", file_checksum(dscfile, file_fields[1].type), " ">>
                                        \o file_information)],
                    Tail(file_fields), dscfile, file_information)

parse_dsc(dscfile, location) ==
    LET parsed == Source_parse_string(dscfile)
    IN IF parsed.raised THEN parsed
       ELSE AddFileInformation(
                [parsed EXCEPT !.fields = DictSet(@, <<"Directory">>, <<location.dirname>>)],
                <<[field |-> <<"Files">>, type |-> "md5"],
                  [field |-> <<"Checksums-Sha1">>, type |-> "sha1"],
                  [field |-> <<"Checksums-Sha256">>, type |-> "sha256"]>>,
                dscfile,
                <<ToString(Len(dscfile)), " ", location.basename>>)

\* The classes of index units.
UnitClasses == {"Package", "Source"}

ParseDeb ==
    /\ pc = "parse_deb"
    /\ run = Call
    /\ run' = Return
    /\ entries' = parse_deb(package)
    /\ UNCHANGED <<args, now, pc, hist, package, rpmStore, debStore>>

ParseDsc ==
    /\ pc = "parse_dsc"
    /\ run = Call
    /\ run' = Return
    /\ entries' = parse_dsc(DscText(package), package.location)
    /\ UNCHANGED <<args, now, pc, hist, package, rpmStore, debStore>>

\* parse_string(S) followed by dump_string(), of the class of the unit.
DumpString ==
    /\ pc = "dump_string"
    /\ run = Call
    /\ run' = Return
    /\ LET unit == IF package.class = "Package"
                   THEN Package_parse_string(ControlText(package.stanza))
                   ELSE Source_parse_string(ControlText(package.stanza))
       IN entries' = [raised |-> unit.raised,
                      text |-> IF unit.raised THEN <<>>
                               ELSE IF package.class = "Package"
                               THEN Package_dump_string(unit.fields)
                               ELSE Source_dump_string(unit.fields)]
    /\ UNCHANGED <<args, now, pc, hist, package, rpmStore, debStore>>

----------------------------------------------------------------------------
(* rpmfile.RpmInfo.parse_file: the offsets of the main header.              *)

OLD_STYLE_HEADER_SIZE == 96

\* A header structure holds at most MaxIndexEntries index entries and
\* MaxDataBytes bytes of store.
MaxIndexEntries == 2
MaxDataBytes == 9

\* (addr + (8 - 1)) & -8
AlignTo8(addr) == ((addr + 7) \div 8) * 8

\* f.tell() after parse_header on a structure that starts at `start`: the
\* 16 bytes of _read_header_header, the index entries of 16 bytes each,
\* then _read_store, which seeks to the aligned end of the store.
parse_header_tell(start, structure) ==
    AlignTo8(start + 16 + 16 * structure.num_index_entries + structure.num_data_bytes)

parse_file(file) ==
    LET header_start == parse_header_tell(OLD_STYLE_HEADER_SIZE, file.signature)
    IN [header_start |-> header_start,
        header_end |-> parse_header_tell(header_start, file.header)]

\* The signature and the main header of an .rpm file.
HeaderStructures == [num_index_entries : 1..MaxIndexEntries, num_data_bytes : 0..MaxDataBytes]

RpmLayouts == [signature : HeaderStructures, header : HeaderStructures]

ParseFile ==
    /\ pc = "parse_file"
    /\ run = Call
    /\ run' = Return
    /\ entries' = parse_file(package)
    /\ UNCHANGED <<args, now, pc, hist, package, rpmStore, debStore>>

----------------------------------------------------------------------------
(* rpmrepo._get_files: the file list of a header.                           *)

\* A header lists at most MaxFiles files.
MaxFiles == 2

\* FILEMODES are int16 in the header: a directory, a regular file, a
\* symbolic link and a character device.
FileModes == {16877, -32348, -24065, 8612}

\* ctypes.c_uint16(filemode).value
c_uint16(filemode) == filemode % 65536

\* stat.S_IFMT(mode) >> 12
S_IFMT(mode) == (mode \div 4096) % 16

S_ISDIR(mode) == S_IFMT(mode) = 4
S_ISREG(mode) == S_IFMT(mode) = 8
S_ISLNK(mode) == S_IFMT(mode) = 10

\* The loop over zip(basenames, dirindexes, filemodes).
RECURSIVE get_files_from(_, _, _)
get_files_from(header, i, files) ==
    IF i > Len(header.BASENAMES) \/ i > Len(header.DIRINDEXES) \/ i > Len(header.FILEMODES)
    THEN files
    ELSE LET filename == header.BASENAMES[i]
             dirname == header.DIRNAMES[header.DIRINDEXES[i] + 1]
             mode == c_uint16(header.FILEMODES[i])
         IN get_files_from(header, i + 1,
                IF S_ISDIR(mode) THEN Append(files, [name |-> dirname \o filename, type |-> "dir"])
                ELSE IF S_ISREG(mode) \/ S_ISLNK(mode)
                THEN Append(files, [name |-> dirname \o filename, type |-> "file"])
                ELSE files)

get_files(header) == get_files_from(header, 1, <<>>)

\* Headers with one or two DIRNAMES and up to MaxFiles files.
FileHeaders ==
    UNION {[DIRNAMES : {dirnames}, BASENAMES : {[i \in 1..n |-> <<"f", ToString(i)>>]},
            DIRINDEXES : [1..n -> 0..(Len(dirnames) - 1)], FILEMODES : [1..n -> FileModes]] :
           dirnames \in {<<<<"/usr/">>>>, <<<<"/usr/">>, <<"/usr/", "bin/">>>>}, n \in 0..MaxFiles}

GetFiles ==
    /\ pc = "get_files"
    /\ run = Call
    /\ run' = Return
    /\ entries' = get_files(package)
    /\ UNCHANGED <<args, now, pc, hist, package, rpmStore, debStore>>

----------------------------------------------------------------------------
(* rpmrepo.parse_metafiles over a storage with a file of repodata/ that     *)
(* does not parse.                                                          *)

\* The published storages with one broken file: repomd.xml that is not XML,
\* or the child of a kind that is not the gzip of an XML document.
BrokenStorages ==
    {[doc |-> s.doc, files |-> s.files, broken |-> b] :
        s \in {m \in MetaStorages : m.doc.exists}, b \in {"repomd.xml"} \cup Kinds}

\* parse_metafiles on such a storage: ET.fromstring in parse_repomd and in
\* parse_<kind>, and gunzip_bytes, raise on the bytes of the broken file
\* when it is read, and parse_metafiles catches nothing.
parse_metafiles_broken(storage) ==
    IF \/ storage.broken = "repomd.xml"
       \/ InitialChild(storage.doc, storage.files, storage.broken).has
    THEN [raised |-> TRUE, maps |-> NoMaps, revision |-> 0, initial |-> NoInitial]
    ELSE [raised |-> FALSE,
          maps |-> parse_metafiles(storage.doc, storage.files).maps,
          revision |-> parse_metafiles(storage.doc, storage.files).revision,
          initial |-> parse_metafiles(storage.doc, storage.files).initial]

ParseBrokenMetafiles ==
    /\ pc = "parse_broken_metafiles"
    /\ run = Call
    /\ run' = Return
    /\ entries' = parse_metafiles_broken(package)
    /\ UNCHANGED <<args, now, pc, hist, package, rpmStore, debStore>>

----------------------------------------------------------------------------
(* rpmrepo.dump_other: the changelog of a package added in the current run. *)

\* The texts that end a changelog author or a changelog text.
ChangelogTails == {<<>>, <<"&">>, <<"<", "a", ">">>}

\* A header holds at most MaxDumped changelog entries when it is dumped.
MaxDumped == 2

\* The headers with n changelog entries whose authors end with who and whose
\* texts end with tail.
AuthoredHeader(n, who, tail) ==
    [CHANGELOGNAME |-> HeaderValue([i \in 1..n |-> <<"n", ToString(i)>> \o who]),
     CHANGELOGTEXT |-> HeaderValue([i \in 1..n |-> <<"t", ToString(i)>> \o tail]),
     CHANGELOGTIME |-> HeaderValue([i \in 1..n |-> 100 + i])]

\* The payloads of the <changelog> elements that dump_other writes for one
\* package: author="%s" and the text, each passed through escape.
dump_other_changelog(log) ==
    [i \in 1..Len(log) |->
        [author |-> escape(log[i].author),
         date |-> log[i].date,
         text |-> escape(log[i].text)]]

\* str.replace(old, new).
RECURSIVE replace(_, _, _)
replace(data, old, new) ==
    IF Len(data) < Len(old) THEN data
    ELSE IF SubSeq(data, 1, Len(old)) = old
         THEN new \o replace(SubSeq(data, Len(old) + 1, Len(data)), old, new)
         ELSE <<Head(data)>> \o replace(Tail(data), old, new)

\* xml.sax.saxutils.unescape: what an XML reader gives for a payload.
unescape(data) ==
    replace(replace(replace(data, <<"&", "l", "t", ";">>, <<"<">>),
                    <<"&", "g", "t", ";">>, <<">">>),
            <<"&", "a", "m", "p", ";">>, <<"&">>)

\* update_repo for one added package: header_to_other builds the record of
\* the other map, dump_other writes it.
DumpOther ==
    /\ pc = "dump_other"
    /\ ~run.returned
    /\ run' = Return
    /\ entries' = dump_other_changelog(header_to_other_changelog(package))
    /\ UNCHANGED <<args, now, pc, hist, package, rpmStore, debStore>>

----------------------------------------------------------------------------
(* rpmrepo.update_repo up to the end of the loop over files_to_add, over a  *)
(* storage that misses children of repomd.xml.                              *)

\* The storages update_repo starts from: a storage of MetaStorages in which
\* the package of the published run is gone, is as it was published, or has
\* a later mtime.
ReconcileStorages ==
    {[doc |-> storage.doc, files |-> storage.files,
      rpms |-> [p \in RpmPaths |-> IF p = "Packages/a.rpm" THEN rpm ELSE NoFile]] :
        storage \in {s \in MetaStorages : s.doc.exists},
        rpm \in {NoFile} \cup
                {[exists |-> TRUE, content |-> header, mtime |-> mtime] :
                    header \in RpmContents \ {Malformed}, mtime \in {10, 20}}}

ReconcileStorage ==
    /\ pc = "reconcile"
    /\ ~run.returned
    /\ run' = Return
    /\ \E order \in Orders(files_to_add(package.doc, package.files, package.rpms)) :
          entries' = Reconcile(package.doc, package.files, package.rpms, order, FALSE)
    /\ UNCHANGED <<args, now, pc, hist, package, rpmStore, debStore>>

----------------------------------------------------------------------------
(* The specifications.                                                      *)

NoRpmStore ==
    /\ rpmFiles = [p \in RpmPaths |-> NoFile]
    /\ metaFiles = << >>
    /\ repomd = NoRepomd
    /\ malformedFile = [exists |-> FALSE, lines |-> <<>>]
    /\ ascFile = [exists |-> FALSE, signed |-> NoRepomd]

RpmInit ==
    /\ args \in [force : BOOLEAN, sign : BOOLEAN]
    /\ now = 0
    /\ NoRpmStore
    /\ pc = "idle"
    /\ run = EmptyRun
    /\ hist = EmptyHist
    /\ NoDebStore
    /\ NoDump

RpmNext ==
    \/ \E order \in Orders(files_to_add(repomd, metaFiles, rpmFiles)) : RpmBegin(order)
    \/ RpmSaveMalformedList
    \/ RpmWriteChildren
    \/ RpmWriteRepomd
    \/ RpmDeleteOldChildren
    \/ RpmSign
    \/ \E path \in RpmPaths, content \in RpmContents, mtime \in Mtimes(now + 1) :
         PutRpm(path, content, mtime)
    \/ \E path \in RpmPaths : RemoveRpm(path)

SpecRpm == RpmInit /\ [][RpmNext]_vars

DebInit ==
    /\ args \in [force : BOOLEAN, sign : BOOLEAN]
    /\ now = 0
    /\ pc = "idle"
    /\ run = EmptyDebRun
    /\ hist = EmptyDebHist
    /\ NoDebStore
    /\ NoRpmStore
    /\ NoDump

DebNext ==
    \/ \E order \in Orders(Existing(DebPaths)) : DebProcessPackages(order)
    \/ \E order \in Orders(Existing(DscPaths)) : DebProcessSources(order)
    \/ DebUpdatePackagesFiles
    \/ DebUpdateSourcesFiles
    \/ DebUpdateReleaseFiles
    \/ \E path \in PoolPaths, mtime \in Mtimes(now + 1) : \E content \in PoolContents(path) :
         PutPool(path, content, mtime)
    \/ \E path \in PoolPaths : RemovePool(path)

SpecDeb == DebInit /\ [][DebNext]_vars


DumpInit ==
    /\ args = [force |-> FALSE, sign |-> FALSE]
    /\ now = 0
    /\ pc = "requires"
    /\ run = DumpStart
    /\ hist = EmptyHist
    /\ package \in {names \in SUBSET RequireNames : Cardinality(names) <= MaxRequires}
    /\ entries = <<>>
    /\ NoRpmStore
    /\ NoDebStore

DumpNext ==
    \/ DumpRequire
    \/ DumpEndRequires

SpecDump == DumpInit /\ [][DumpNext]_vars

\* mkrepo.update_repo without --force: the storage is that of a DEB
\* repository or that of an RPM repository, and the run is the run of its
\* family.
DebFamily == "before" \in DOMAIN hist

MkrepoInit == (DebInit \/ RpmInit) /\ ~args.force

MkrepoNext ==
    \/ DebFamily /\ DebNext
    \/ ~DebFamily /\ RpmNext

SpecMkrepo == MkrepoInit /\ [][MkrepoNext]_vars

\* The pure functions of rpmrepo and rpmfile, each applied once to an input
\* drawn from a bounded set.
RpmFnInit ==
    /\ args = [force |-> FALSE, sign |-> FALSE]
    /\ now = 0
    /\ run = Call
    /\ hist = EmptyHist
    /\ entries = <<>>
    /\ \/ pc = "flags_to_str" /\ package \in 0..MaxFlags
       \/ pc = "header_to_primary" /\ package \in Headers
       \/ pc = "dump_primary" /\ package \in Packages
       \/ pc = "parse_metafiles" /\ package \in MetaStorages
       \/ pc = "parse_file" /\ package \in RpmLayouts
       \/ pc = "parse_broken_metafiles" /\ package \in BrokenStorages
       \/ pc = "get_files" /\ package \in FileHeaders
       \/ pc = "header_to_other"
            /\ \E n \in 0..MaxChangelog, tail \in {<<>>, <<"&">>} : package = ChangelogHeader(n, tail)
       \/ pc = "reconcile" /\ package \in ReconcileStorages
       \/ pc = "dump_other"
            /\ \E n \in 0..MaxDumped, who \in ChangelogTails, tail \in ChangelogTails :
                  package = AuthoredHeader(n, who, tail)
    /\ NoRpmStore
    /\ NoDebStore

RpmFnNext ==
    \/ FlagsToStr
    \/ HeaderToPrimary
    \/ DumpPrimary
    \/ HeaderToOther
    \/ DumpOther
    \/ ReconcileStorage
    \/ ParseMetafiles
    \/ ParseFile
    \/ ParseBrokenMetafiles
    \/ GetFiles

SpecRpmFn == RpmFnInit /\ [][RpmFnNext]_vars

\* The pure functions of debrepo, each applied once to an input drawn from a
\* bounded set.
DebFnInit ==
    /\ args = [force |-> FALSE, sign |-> FALSE]
    /\ now = 0
    /\ run = Call
    /\ hist = EmptyDebHist
    /\ entries = <<>>
    /\ \/ pc = "split_pkg_path" /\ package \in DebKeys
       \/ pc = "parse_deb" /\ package \in DebFiles
       \/ pc = "parse_dsc" /\ package \in DscFiles
       \/ pc = "dump_string" /\ package \in [class : UnitClasses, stanza : ControlStanzas]
    /\ NoRpmStore
    /\ NoDebStore

DebFnNext == SplitPkgPath \/ ParseDeb \/ ParseDsc \/ DumpString

SpecDebFn == DebFnInit /\ [][DebFnNext]_vars

----------------------------------------------------------------------------
(* Properties of the RPM reconcile.                                         *)

\* The last run went through and nothing has started since.
RpmDone == pc = "idle" /\ hist.outcome = "ok"

\* The <package> elements of the child of repomd.xml of this kind.
Emitted(kind) == gunzip_bytes(metaFiles[repomd.data[kind].location])

\* C1: the revision a successful run writes is the revision that was in
\* repomd.xml when the run started plus 1, and 1 when there was none.
C1_RevisionIsOldPlusOne ==
    RpmDone =>
        repomd.revision.text = (IF hist.startRevision.present THEN hist.startRevision.text ELSE 0) + 1

\* C2: after a successful run every child listed in repomd.xml is stored
\* under repodata/<H>-<kind>.xml.gz where H is the SHA-256 of the stored
\* bytes, the listed checksum is H and the listed size is their length.
C2_ManifestConsistent ==
    RpmDone =>
        \A kind \in Kinds :
            LET entry == repomd.data[kind]
            IN /\ repomd.exists /\ entry.present
               /\ entry.location.dir = "repodata" /\ entry.location.kind = kind
               /\ MetaExists(metaFiles, entry.location)
               /\ entry.location.sha256 = bytes_checksum(metaFiles[entry.location])
               /\ entry.checksum = bytes_checksum(metaFiles[entry.location])
               /\ entry.size = GzLen(metaFiles[entry.location])

\* A successful run that replaced the children of an earlier manifest by
\* children listing a package.
C2_Replaced ==
    /\ RpmDone
    /\ hist.startRevision.present
    /\ ~hist.same
    /\ \A kind \in Kinds : MetaExists(metaFiles, repomd.data[kind].location)
    /\ Len(Emitted("primary")) > 0

\* C4: no emitted primary, filelists or other document holds two packages
\* with the same (name, epoch, release, version).
C4_IdentityUnique ==
    RpmDone =>
        \A kind \in Kinds :
            \A i, j \in 1..Len(Emitted(kind)) :
                ElementNerv(Emitted(kind)[i]) = ElementNerv(Emitted(kind)[j]) => i = j

\* C6: a successful run that follows a successful run with no change to any
\* .rpm in between emits the documents the first run emitted.
C6_RpmIdempotent == (RpmDone /\ hist.repeat) => hist.same

\* C21: after a successful run and no change since, an .rpm that the run
\* indexed (a unit of the stored primary has its location) is neither in
\* files_to_add nor in files_to_delete of the next run, whatever mtime the
\* storage reports for it.
C21_UnchangedSkipped ==
    (RpmDone /\ hist.fresh) =>
        LET primary == parse_metafiles(repomd, metaFiles).maps["primary"]
        IN \A p \in {q \in RpmPaths : rpmFiles[q].exists} :
              (\E i \in 1..Len(primary) : primary[i].v.location = p) =>
                  /\ <<p, rpmFiles[p].mtime>> \notin files_to_add(repomd, metaFiles, rpmFiles)
                  /\ \A f \in recorded_files(primary) \ existing_files(rpmFiles) : f[1] # p

\* C22: the children are written first, then repomd.xml, and the old
\* children are deleted last and only when their names differ: at every
\* state of a run every child listed in the repomd.xml in storage exists.
C22_ListedChildrenExist ==
    repomd.exists =>
        \A kind \in Kinds :
            repomd.data[kind].present /\ MetaExists(metaFiles, repomd.data[kind].location)

\* A run that has written the new repomd.xml and is about to delete the
\* children of the old one.
C22_AboutToDelete ==
    /\ pc = "delete_old"
    /\ hist.startRevision.present
    /\ OldChildren(run) # {}
    /\ repomd = RunRepomd(run)

----------------------------------------------------------------------------
(* Properties of the DEB reconcile.                                         *)

DebDone == pc = "idle" /\ hist.outcome = "ok"

\* The last run saw the pool as it is now.
DebSettled == pc = "idle" /\ hist.outcome # "none" /\ hist.fresh

\* C3: after a successful run, for every dist whose Release was written,
\* (a) every index file emitted in the run has one line in each of the
\* MD5Sum, SHA1 and SHA256 blocks and (b) the bytes stored at every listed
\* path have the listed length and the listed digest.
C3_ReleaseConsistent ==
    DebDone =>
        \A dist \in hist.written :
            /\ releases[dist].exists
            /\ \A key \in {k \in hist.emitted : k[1] = dist} : \A ty \in ChecksumTypes :
                   Cardinality({l \in releases[dist].lines :
                                    l.checksum_type = ty /\ l.path = <<key[2], key[3], key[4]>>}) = 1
            /\ \A l \in releases[dist].lines :
                   LET key == IndexKey(dist, l.path[1], l.path[2], l.path[3])
                   IN /\ key \in DOMAIN indexFiles
                      /\ l.size = BytesLen(indexFiles[key])
                      /\ l.checksum = Digest(l.checksum_type, indexFiles[key])

\* A successful run that emitted a Packages.gz with a unit in it and a
\* Release listing it.
C3_Listed ==
    /\ DebDone
    /\ \E key \in hist.emitted :
          /\ key[4] = "Packages.gz"
          /\ indexFiles[key].data # {}
          /\ key[1] \in hist.written
          /\ \E l \in releases[key[1]].lines : l.path = <<key[2], key[3], key[4]>>

\* C5: a run that follows a successful run with no change under pool/ in
\* between completes and emits Packages and Sources files with the units
\* of the first run.
C5_DebIdempotent ==
    (pc = "idle" /\ hist.repeat /\ hist.outcome # "sign_failed") => (hist.outcome = "ok" /\ hist.same)

\* The identities in the Packages files and those of the .deb files that parse.
PackagesIds == {PackageKey(u) : u \in UNION {indexFiles[k].data : k \in {x \in DOMAIN indexFiles : x[4] = "Packages"}}}

CleanIds ==
    {<<pool[p].content.Package, pool[p].content.Version, pool[p].content.Architecture>> :
        p \in {q \in Existing(DebPaths) : pool[q].content.ok}}

RejectedIn(dist) == {p \in Existing(DebPaths) : ~pool[p].content.ok /\ p.pathDist = dist}

\* C7: in force mode a run over .deb files some of which do not parse
\* completes, the identities in the emitted index are those of the files
\* that parse, and the malformed list of each dist holds exactly the paths
\* rejected, and is absent when none was.
C7_MalformedIsolated ==
    (/\ DebSettled /\ args.force /\ hist.outcome # "sign_failed"
     /\ \A p \in Existing(DebPaths) : p.grammar
     /\ \A p \in Existing(DscPaths) : pool[p].content.ok
     /\ \E p \in Existing(DebPaths) : ~pool[p].content.ok)
    => /\ hist.outcome = "ok"
       /\ PackagesIds = CleanIds
       /\ \A dist \in DistNames :
             /\ debMalformed[dist].exists = (RejectedIn(dist) # {})
             /\ SeqToSet(debMalformed[dist].lines) = RejectedIn(dist)
             /\ Len(debMalformed[dist].lines) = Cardinality(RejectedIn(dist))

\* C8: a .deb key that matches no file-name grammar is fatal in default
\* mode; in force mode the run goes on and records the key in the
\* malformed list of the dist of its pool/<dist>/main prefix.
C8_UnparseableName ==
    (DebSettled /\ \E p \in Existing(DebPaths) : ~p.grammar)
    => IF args.force
       THEN /\ hist.outcome # "exit"
            /\ hist.outcome = "ok" =>
                  \A p \in Existing(DebPaths) : ~p.grammar => p \in SeqToSet(debMalformed[p.pathDist].lines)
       ELSE hist.outcome \in {"exit", "deb_raised", "read_raised"}

\* C9: in force mode a .dsc that cannot be parsed does not abort the run:
\* its path goes to the malformed list and the emit stage is reached.
C9_MalformedDsc ==
    (DebSettled /\ args.force /\ \E p \in Existing(DscPaths) : ~pool[p].content.ok)
    => /\ hist.outcome # "dsc_raised"
       /\ hist.outcome = "ok" =>
             \A p \in Existing(DscPaths) : ~pool[p].content.ok => p \in SeqToSet(debMalformed[p.pathDist].lines)

\* C20: signing is the last step of a DEB run: when gpg fails, every index
\* file emitted in the run is already listed, with its length and digests,
\* in the Release of its dist in storage.
C20_SigningLast ==
    (pc = "idle" /\ hist.outcome = "sign_failed") =>
        \A key \in hist.emitted : \A ty \in ChecksumTypes :
            /\ releases[key[1]].exists
            /\ \E l \in releases[key[1]].lines :
                  /\ l.checksum_type = ty
                  /\ l.path = <<key[2], key[3], key[4]>>
                  /\ l.size = BytesLen(indexFiles[key])
                  /\ l.checksum = Digest(ty, indexFiles[key])

\* C27: after a successful run over an unchanged pool, for every .deb with
\* a parseable file name and a control record the index of its slot holds
\* exactly one unit with the identity of the record, and the Filename and
\* FileTime of that unit are those of the file.
C27_OneUnitPerFile ==
    (DebDone /\ hist.fresh) =>
        \A p \in {q \in Existing(DebPaths) : q.grammar /\ pool[q].content.ok} :
            LET key == PackagesKey(split_pkg_path(p).slot)
                units == {u \in indexFiles[key].data :
                            PackageKey(u) = <<pool[p].content.Package, pool[p].content.Version,
                                              pool[p].content.Architecture>>}
            IN /\ key \in DOMAIN indexFiles
               /\ Cardinality(units) = 1
               /\ \A u \in units : u.Filename = p /\ u.FileTime = StrOf(FloatValue(pool[p].mtime))

\* The Packages and Sources files that read_release_and_indices loads.
LoadedKeys ==
    {PackagesKey(slot) : slot \in ReleaseSlots(releases)}
    \cup {IndexKey(key[1], key[2], Subdir("source"), "Sources") : key \in ReleaseSources(releases, indexFiles)}

\* The unit v is the unit of an artifact that is now in pool/ and has the
\* identity of the unit u of the index file key.
ReplacedBy(key, u, v) ==
    /\ IF key[4] = "Sources" THEN SourceKey(v) = SourceKey(u) ELSE PackageKey(v) = PackageKey(u)
    /\ pool[v.Filename].exists
    /\ v.FileTime = StrOf(FloatValue(pool[v.Filename].mtime))

\* C30: no step of debrepo.update_repo removes a unit: a unit of a loaded
\* Packages or Sources file is in the file after the step too, unless the
\* file then holds the unit of a current artifact with the same identity.
C30_UnitsKept ==
    [][\A key \in LoadedKeys \cap DOMAIN indexFiles :
          \A u \in indexFiles[key].data :
             /\ key \in DOMAIN indexFiles'
             /\ \/ u \in indexFiles'[key].data
                \/ \E v \in indexFiles'[key].data : ReplacedBy(key, u, v)]_vars

\* A run has completed and left in an index a unit whose file is gone from
\* pool/.
C30_GoneFileKept ==
    /\ DebDone
    /\ hist.fresh
    /\ \E key \in LoadedKeys \cap DOMAIN indexFiles :
          \E u \in indexFiles[key].data : ~pool[u.Filename].exists

----------------------------------------------------------------------------
(* Properties of both families.                                             *)

\* C23: no index or manifest file (Packages*, Sources*, Release; the
\* children of repomd.xml and repomd.xml) is written or deleted by a step
\* that comes before the end of the processing of the artifacts; so a run
\* that aborts on an artifact leaves them as they were.
C23_CommittedAtEmit ==
    [][(pc \in {"idle", "process_sources", "save_malformed_list"})
          => (UNCHANGED <<metaFiles, repomd, releases, indexFiles>>)]_vars

\* A run without --force that an artifact aborted, over a storage that
\* holds a manifest of an earlier run.
C23_AbortedOverManifest ==
    /\ pc = "idle"
    /\ ~args.force
    /\ \/ hist.outcome = "raised" /\ repomd.exists
       \/ hist.outcome = "deb_raised" /\ \E dist \in DistNames : releases[dist].exists

----------------------------------------------------------------------------
(* Properties of dump_primary.                                              *)

LibcEntries == SelectSeq(entries, LAMBDA name : startswith(name, LibcSo6))

\* C10: when the requires of a package hold a name that starts with
\* libc.so.6, <rpm:requires> holds exactly one such entry, and no libc.so.6
\* require of the package has a higher library version.
C10_LibcFolded ==
    (pc = "dumped" /\ \E name \in package : startswith(name, LibcSo6))
    => /\ Len(LibcEntries) = 1
       /\ \A name \in package :
             startswith(name, LibcSo6) => compare_dependency(LibcEntries[1], name) # 2


----------------------------------------------------------------------------
(* Properties of the pure functions of rpmrepo and rpmfile.                 *)

\* C11: a REQUIRE entry whose (name, epoch, release, version) and operator
\* are those of some PROVIDE entry of the same header is not in the requires
\* map that header_to_primary builds, whatever the provides list is.
C11_SelfProvidesFilter ==
    (pc = "header_to_primary" /\ run.returned /\ ~entries.raised) =>
        \A r \in SeqToSet(package.requires), p \in SeqToSet(package.provides) :
            (EntryNerv(r) = EntryNerv(p) /\ flags_to_str(r.flags) = flags_to_str(p.flags)) =>
                ~\E i \in 1..Len(entries.requires) :
                    /\ entries.requires[i].k = EntryNerv(r)
                    /\ entries.requires[i].v.flags = flags_to_str(r.flags)

\* C15: flags_to_str(f) depends only on f & 0x0E and is EQ for 0x08, LT for
\* 0x02, GT for 0x04, LE for 0x0A, GE for 0x0C, NE for 0x06, None for 0x00.
C15_DependencyOperator ==
    (pc = "flags_to_str" /\ run.returned) =>
        LET f == BitAnd(package, 14)
        IN /\ entries = flags_to_str(f)
           /\ f = 8 => entries = <<"E", "Q">>
           /\ f = 2 => entries = <<"L", "T">>
           /\ f = 4 => entries = <<"G", "T">>
           /\ f = 10 => entries = <<"L", "E">>
           /\ f = 12 => entries = <<"G", "E">>
           /\ f = 6 => entries = <<"N", "E">>
           /\ f = 0 => entries = None

\* C12: in the output of dump_primary every text payload and attribute
\* payload that comes from package data has &, < and > escaped: it holds no
\* < and no >, and every & starts one of the entities &amp; &lt; &gt;.
C12_PrimaryEscaped ==
    (pc = "dump_primary" /\ run.returned) =>
        \A i \in 1..Len(entries) :
            LET payload == entries[i].payload
            IN \A k \in 1..Len(payload) :
                  /\ payload[k] \notin {"<", ">"}
                  /\ payload[k] = "&" =>
                        \E entity \in {<<"&", "a", "m", "p", ";">>, <<"&", "l", "t", ";">>,
                                       <<"&", "g", "t", ";">>} :
                            /\ k + Len(entity) - 1 <= Len(payload)
                            /\ SubSeq(payload, k, k + Len(entity) - 1) = entity

\* C13: for a header with n changelog entries header_to_other gives
\* min(n, 10) changelog records: the input entries 1..min(n, 10) in reversed
\* order, each with the author, the date and the text of one input entry.
C13_ChangelogTruncated ==
    (pc = "header_to_other" /\ run.returned) =>
        LET names == AsList(package.CHANGELOGNAME)
            m == IF Len(names) < 10 THEN Len(names) ELSE 10
        IN /\ Len(entries) = m
           /\ \A k \in 1..m :
                 /\ entries[k].author = escape(names[m + 1 - k])
                 /\ entries[k].date = AsList(package.CHANGELOGTIME)[m + 1 - k]
                 /\ entries[k].text = escape(AsList(package.CHANGELOGTEXT)[m + 1 - k])

\* header_to_other has cut a changelog of more than 10 entries.
C13_Truncated ==
    /\ pc = "header_to_other"
    /\ run.returned
    /\ Len(AsList(package.CHANGELOGNAME)) > 10
    /\ Len(entries) = 10
    /\ entries[1].date = 110

\* C14: for each kind, parse_metafiles gives an empty map and no initial
\* location when repomd.xml has no <data> of that kind or lists a location
\* that is not in storage; without repomd.xml the three maps are empty, the
\* three initial locations are null and the revision is "0".
C14_MissingChildren ==
    (pc = "parse_metafiles" /\ run.returned) =>
        /\ \A kind \in Kinds :
              (\/ ~package.doc.exists
               \/ ~package.doc.data[kind].present
               \/ package.doc.data[kind].location \notin DOMAIN package.files) =>
                    /\ entries.maps[kind] = <<>>
                    /\ ~entries.initial[kind].has
        /\ ~package.doc.exists => entries.revision = 0

\* parse_metafiles has met a repomd.xml that lists a primary that is not in
\* storage and a filelists that is.
C14_PrimaryMissing ==
    /\ pc = "parse_metafiles"
    /\ run.returned
    /\ package.doc.exists
    /\ package.doc.data["primary"].present
    /\ package.doc.data["primary"].location \notin DOMAIN package.files
    /\ entries.initial["filelists"].has
    /\ entries.maps["filelists"] # <<>>

\* C24: parse_file records header_start as the end of the signature header
\* rounded up to a multiple of 8 and header_end as header_start + 16 +
\* 16 * numIndexEntries + numDataBytes of the main header, not rounded.
C24_HeaderRange ==
    (pc = "parse_file" /\ run.returned) =>
        /\ entries.header_start % 8 = 0
        /\ entries.header_start - 8 <
              OLD_STYLE_HEADER_SIZE + 16 + 16 * package.signature.num_index_entries
                  + package.signature.num_data_bytes
        /\ entries.header_start >=
              OLD_STYLE_HEADER_SIZE + 16 + 16 * package.signature.num_index_entries
                  + package.signature.num_data_bytes
        /\ entries.header_end =
              entries.header_start + 16 + 16 * package.header.num_index_entries
                  + package.header.num_data_bytes

\* C25: the file list holds one entry per file whose mode is a directory
\* (type dir) or a regular file or symbolic link (type file), named
\* DIRNAMES[dirindex] + basename, none for another mode, and one entry of
\* type dir for each DIRNAMES entry.
C25_FileList ==
    (pc = "get_files" /\ run.returned) =>
        /\ \A i \in 1..Len(package.BASENAMES) :
              LET name == package.DIRNAMES[package.DIRINDEXES[i] + 1] \o package.BASENAMES[i]
                  hits == {j \in 1..Len(entries) : entries[j].name = name}
              IN CASE package.FILEMODES[i] = 16877 ->
                        Cardinality(hits) = 1 /\ \A j \in hits : entries[j].type = "dir"
                   [] package.FILEMODES[i] \in {-32348, -24065} ->
                        Cardinality(hits) = 1 /\ \A j \in hits : entries[j].type = "file"
                   [] OTHER -> hits = {}
        /\ \A i \in 1..Len(package.DIRNAMES) :
              Cardinality({j \in 1..Len(entries) :
                              entries[j] = [name |-> package.DIRNAMES[i], type |-> "dir"]}) = 1

\* C26: when repomd.xml or a child it lists is in storage and does not
\* parse, the run does not abort: the broken index counts as empty (all
\* three maps for repomd.xml, the map of its kind for a child).
C26_BrokenIndexIsEmpty ==
    (pc = "parse_broken_metafiles" /\ run.returned) =>
        /\ ~entries.raised
        /\ \A kind \in Kinds : package.broken \in {"repomd.xml", kind} => entries.maps[kind] = <<>>

\* C28: for a package added in the current run each changelog author and
\* text written by dump_other is the string of the header escaped one time:
\* unescaping the payload once gives the string of the header.
C28_EscapedOnce ==
    (pc = "dump_other" /\ run.returned) =>
        LET names == AsList(package.CHANGELOGNAME)
            texts == AsList(package.CHANGELOGTEXT)
            m == Len(names)
        IN /\ Len(entries) = m
           /\ \A k \in 1..m :
                 /\ unescape(entries[k].author) = names[m + 1 - k]
                 /\ unescape(entries[k].text) = texts[m + 1 - k]

\* C29: for every storage that parse_metafiles accepts, also one that holds
\* only some of the children listed in repomd.xml, the deletion of the units
\* of the vanished packages does not fail, and the primary, filelists and
\* other maps at the end of the loop over files_to_add hold the same set of
\* identity tuples.
C29_KeysAgree ==
    (pc = "reconcile" /\ run.returned) =>
        /\ ~entries.raised
        /\ \A kind \in Kinds : DictKeys(entries.maps[kind]) = DictKeys(entries.maps["primary"])

----------------------------------------------------------------------------
(* Properties of the pure functions of debrepo.                             *)

\* C16: for a .deb key whose file name matches the grammar split_pkg_path
\* never fails and gives (dist, 'main', arch): arch is the <arch> of the
\* file name, dist is <dist> when the key starts with pool/<dist>/main and
\* 'all' otherwise.
C16_DebSlot ==
    (pc = "split_pkg_path" /\ run.returned /\ match_package(package).grammar) =>
        /\ ~entries.raised
        /\ ~entries.none
        /\ entries.slot =
              <<IF match_path(package) # "" THEN match_path(package) ELSE "all", "main", package.arch>>

\* C17: parse_deb yields the control record (what parse_string makes of
\* ./control, keys in the order of the file) for a .deb whose control member
\* is control.tar.gz, control.tar.xz or control.tar.zst, and raises for a
\* .deb without such a member.
C17_ControlExtraction ==
    (pc = "parse_deb" /\ run.returned) =>
        IF package.members = {}
        THEN entries.raised
        ELSE /\ ~entries.raised
             /\ entries.fields = Package_parse_string(ControlText(package.control)).fields
             /\ [i \in 1..Len(entries.fields) |-> entries.fields[i].k] =
                   [i \in 1..Len(package.control) |-> package.control[i].k]

\* C18: parse_dsc stores Source as Package at its position, keeps the other
\* fields, appends Directory = dirname(location) last, and gives Files,
\* Checksums-Sha1 and Checksums-Sha256 one trailing line
\* " <digest> <size> <basename>" for the .dsc itself.
C18_SourceFromDsc ==
    (pc = "parse_dsc" /\ run.returned) =>
        /\ ~entries.raised
        /\ Len(entries.fields) = Len(package.fields) + 1
        /\ entries.fields[Len(entries.fields)] =
              [k |-> <<"Directory">>, v |-> <<package.location.dirname>>]
        /\ \A i \in 1..Len(package.fields) :
              LET field == package.fields[i]
                  type == CASE field.k = <<"Files">> -> "md5"
                            [] field.k = <<"Checksums-Sha1">> -> "sha1"
                            [] OTHER -> "sha256"
              IN /\ entries.fields[i].k = IF field.k = <<"Source">> THEN <<"Package">> ELSE field.k
                 /\ entries.fields[i].v =
                       IF field.k \in {<<"Files">>, <<"Checksums-Sha1">>, <<"Checksums-Sha256">>}
                       THEN FieldValue(field)
                              \o <<"\n", " ", file_checksum(DscText(package), type), " ",
                                   ToString(Len(DscText(package))), " ", package.location.basename>>
                       ELSE FieldValue(field)

\* C19: parse_string(S) followed by dump_string() yields S, for Package and
\* for Source units, for every well-formed stanza S.
C19_RoundTrip ==
    (pc = "dump_string" /\ run.returned) =>
        ~entries.raised /\ entries.text = ControlText(package.stanza)

============================================================================
